---- MODULE Spec2Model ----
(***************************************************************************)
(* Model of the in-process notification scheduler of the chronic-care      *)
(* backend (backend/services/emailScheduler.js) together with the parts of *)
(* the store, the analysis service and the reading-submission route that   *)
(* the scheduler's behaviour depends on.                                   *)
(*                                                                         *)
(* JavaScript runs one callback at a time, so every action below is the    *)
(* code that runs between two awaits of one async function: a timer or a   *)
(* request starts a task, and each later action is the continuation of one *)
(* await of that task.  Texts (times of day) are sequences of one-letter   *)
(* strings so that formatting, padding and comparison are computed.        *)
(***************************************************************************)
EXTENDS Integers, Sequences, FiniteSets, TLC

(***************************************************************************)
(* Bounds of the model.                                                    *)
(***************************************************************************)
MaxClock == 4        \* number of wall-clock instants the run passes through
MaxTasks == 2        \* async functions in flight at the same time
MaxSends == 2        \* the per-item send counters saturate here
MaxChecks == 1       \* checkCount is followed up to this value
MaxPending == 1      \* one-shot initial checks pending at the same time
MaxGen == 2          \* calls of start() that create timers in one run
MaxWindow == 3        \* readings in the window of a multi-reading report
MaxPoints == 7        \* points in a series given to the trend analysis and the forecast
\* most active medications of a patient, and most completed medication reminders
\* of the last 7 days
MaxMeds == 2
MaxCompleted == 15

MaxReadings == 1     \* readings submitted in one run

(***************************************************************************)
(* Texts.                                                                  *)
(***************************************************************************)
Range(s) == {s[k] : k \in 1..Len(s)}

Digits == <<"0", "1", "2", "3", "4", "5", "6", "7", "8", "9">>

\* n.toString().padStart(2, '0') for 0 <= n <= 99, as Date.toTimeString prints it
Pad2(n) == <<Digits[(n \div 10) + 1], Digits[(n % 10) + 1]>>

\* now.toTimeString().substring(0, 5): the HH:MM of a minute of the day
ToHHMM(minute) == Pad2(minute \div 60) \o <<":">> \o Pad2(minute % 60)

\* String.prototype.padStart(2, '0')
PadStart2(s) ==
    IF Len(s) >= 2 THEN s
    ELSE IF Len(s) = 1 THEN <<"0">> \o s
    ELSE <<"0", "0">>

\* position of the first ':' in s at or after k, or Len(s) + 1
RECURSIVE ColonFrom(_, _)
ColonFrom(s, k) ==
    IF k > Len(s) THEN Len(s) + 1
    ELSE IF s[k] = ":" THEN k
    ELSE ColonFrom(s, k + 1)

\* t.split(':')
RECURSIVE SplitColon(_)
SplitColon(s) ==
    LET c == ColonFrom(s, 1) IN
    IF c > Len(s) THEN <<s>>
    ELSE <<SubSeq(s, 1, c - 1)>> \o SplitColon(SubSeq(s, c + 1, Len(s)))

\* the conversion of one schedule time to HH:MM in the due filter
NormalizeTime(t) ==
    IF ":" \in Range(t)
    THEN LET timeParts == SplitColon(t)
             hours == PadStart2(timeParts[1])
             minutes == IF Len(timeParts[2]) > 0 THEN PadStart2(timeParts[2])
                        ELSE <<"0", "0">>
         IN hours \o <<":">> \o minutes
    ELSE t

(***************************************************************************)
(* The wall clock.  The run passes through the first MaxClock instants of  *)
(* ClockPoints (minutes of the day): 08:00, 08:01, 08:30, 09:00, ...       *)
(***************************************************************************)
ClockPoints == <<480, 481, 510, 540, 1260, 1320>>

Minute(k) == ClockPoints[k]

Clock == 1..MaxClock

(***************************************************************************)
(* The store: patients, medications, readings.                             *)
(***************************************************************************)
Patients == {"p1", "p2"}

Medications == {"m1", "m2"}

\* the order in which Medication.findAll and the cache iteration return rows
MedOrder == <<"m1", "m2">>

PatientOrder == <<"p1", "p2">>

T0800 == <<"0", "8", ":", "0", "0">>

T2000 == <<"2", "0", ":", "0", "0">>

T0830 == <<"0", "8", ":", "3", "0">>

T083000 == <<"0", "8", ":", "3", "0", ":", "0", "0">>

T800 == <<"8", ":", "0", "0">>

T830 == <<"8", ":", "3", "0">>

\* '' : the patient row has no preferred email time (or there is no row)
NoTime == <<>>

T090000 == <<"0", "9", ":", "0", "0", ":", "0", "0">>

T2100 == <<"2", "1", ":", "0", "0">>

\* HH:MM:SS, as registration, the preferences route and the client write it
SecondsTexts == {T083000, T090000}

\* the texts a patient's preferredEmailTime column holds in this model: the
\* profile route stores the text it is given and the store's dialect is a
\* setting of the deployment (DB_DIALECT), so HH:MM is among them
TimeTexts == SecondsTexts \cup {T0830, T2100}

\* the medication rows: the schedule is either {times: [...]} or a string
MedRow ==
    [m \in Medications |->
        IF m = "m1"
        THEN [patientId |-> "p1",
              schedule |-> [form |-> "times", times |-> <<T0800, T830, T2000>>, text |-> <<>>]]
        ELSE [patientId |-> "p2",
              schedule |-> [form |-> "string", times |-> <<>>, text |-> T800]]]

\* the patient columns the medication query filters on, apart from
\* emailNotifications, which is a variable
PatientRow == [p \in Patients |-> [hasEmail |-> TRUE]]

ReadingIds == 1..MaxReadings

\* the readings a patient submits in this model
ReadingInputs ==
    {[dataType |-> "blood_sugar", value |-> 150, systolic |-> 0, diastolic |-> 0],
     [dataType |-> "blood_sugar", value |-> 200, systolic |-> 0, diastolic |-> 0]}

NoReading ==
    [used |-> FALSE, patientId |-> "p1", dataType |-> "blood_sugar", value |-> 0,
     systolic |-> 0, diastolic |-> 0, riskLevel |-> "low", alertSent |-> FALSE]

(***************************************************************************)
(* Program constants of the scheduler.                                     *)
(***************************************************************************)
MedPeriod == 1          \* minutes between medication ticks
DailyPeriod == 30       \* minutes between daily-update ticks
ReloadPeriod == 60      \* minutes between schedule reloads
MedFromHour == 7
MedToHour == 21
DailyFromHour == 6
DailyToHour == 22
AlertLimit == 3

Period(kind) ==
    IF kind = "medication" THEN MedPeriod
    ELSE IF kind = "daily" THEN DailyPeriod
    ELSE ReloadPeriod

VARIABLES
    now,                     \* index into ClockPoints of the current wall-clock minute
    isRunning,               \* this.isRunning
    timers,                  \* the setInterval timers that are live
    mainInterval,            \* this.mainInterval (0: undefined)
    dailyUpdateInterval,     \* this.dailyUpdateInterval
    scheduleReloadInterval,  \* this.scheduleReloadInterval
    handles,                 \* the setInterval handles created so far
    initialChecks,           \* the pending one-shot setTimeout(..., 5000) of start()
    patientSchedules,        \* this.patientSchedules: patient id -> emailTime
    checkCount,              \* this.checkCount
    storeTime,               \* Patient.preferredEmailTime as the store returns it
    medActive,               \* Medication.isActive
    emailNotifications,      \* Patient.emailNotifications
    pendingDaily,            \* the per-patient setTimeout triggers of schedulePatientEmails
    call,                    \* an analysis call: function, argument, result
    readings,                \* the HealthData rows
    tasks,                   \* the async functions in flight
    remCount,                \* sendMedicationReminder calls per medication and tick minute
    alertCount,              \* sendHealthAlert calls per reading
    dailyCount               \* sendDailyUpdate calls that a timer started, per patient

vars ==
    <<now, isRunning, timers, mainInterval, dailyUpdateInterval,
      scheduleReloadInterval, handles, initialChecks, patientSchedules, checkCount,
      storeTime, medActive, emailNotifications, pendingDaily, call, readings, tasks, remCount,
      alertCount, dailyCount>>

schedVars ==
    <<isRunning, timers, mainInterval, dailyUpdateInterval, scheduleReloadInterval,
      handles, initialChecks>>

logVars == <<remCount, alertCount, dailyCount>>

Slots == 1..MaxTasks

\* no setTimeout trigger of schedulePatientEmails is pending for a patient
NoTriggers == [today |-> 0, tomorrow |-> 0]

Idle ==
    [kind |-> "idle", origin |-> "none", pc |-> "none", at |-> 1, queue |-> <<>>,
     idx |-> 0, items |-> <<>>, aidx |-> 0, failed |-> FALSE, hadError |-> FALSE,
     cut |-> FALSE, loaded |-> [p \in Patients |-> NoTime]]

\* no analysis call is under study
NoCall == [fn |-> "none", arg |-> <<>>, done |-> FALSE, ret |-> <<>>]

\* the origins of a tick that a timer of the scheduler started
TimerOrigins == {"interval", "initial"}

HasFree == \E i \in Slots : tasks[i].kind = "idle"

FreeSlot == CHOOSE i \in Slots : tasks[i].kind = "idle" /\ \A j \in Slots : tasks[j].kind = "idle" => i <= j

Sat(n) == IF n < MaxSends THEN n + 1 ELSE n

Init ==
    /\ now \in 1..Len(ClockPoints)
    /\ isRunning = FALSE
    /\ timers = {}
    /\ mainInterval = 0
    /\ dailyUpdateInterval = 0
    /\ scheduleReloadInterval = 0
    /\ handles = 0
    /\ initialChecks = <<>>
    /\ patientSchedules = [p \in Patients |-> NoTime]
    /\ checkCount = 0
    /\ storeTime \in [Patients -> TimeTexts]
    /\ medActive \in [Medications -> BOOLEAN]
    /\ emailNotifications \in [Patients -> BOOLEAN]
    /\ pendingDaily = [p \in Patients |-> NoTriggers]
    /\ call = NoCall
    /\ readings = [r \in ReadingIds |-> NoReading]
    /\ tasks = [i \in Slots |-> Idle]
    /\ remCount = [m \in Medications |-> [k \in Clock |-> 0]]
    /\ alertCount = [r \in ReadingIds |-> 0]
    /\ dailyCount = [p \in Patients |-> 0]

(***************************************************************************)
(* Pure parts of the handlers.                                             *)
(***************************************************************************)
\* the operating hours of the medication check
InMedHours(k) ==
    LET currentHour == Minute(k) \div 60
    IN ~(currentHour < MedFromHour \/ currentHour >= MedToHour)

\* the operating hours of the daily-update check
InDailyHours(k) ==
    LET currentHour == Minute(k) \div 60
    IN ~(currentHour < DailyFromHour \/ currentHour >= DailyToHour)

\* the filter callback of dueMedications: does the schedule name currentTime
ScheduleDue(schedule, currentTime) ==
    IF schedule.form = "times"
    THEN currentTime \in {NormalizeTime(schedule.times[j]) : j \in 1..Len(schedule.times)}
    ELSE IF schedule.form = "string" /\ ":" \in Range(schedule.text)
    THEN NormalizeTime(schedule.text) = currentTime
    ELSE FALSE

\* Medication.findAll: the active medications of patients with email notifications
MedicationsFound ==
    SelectSeq(MedOrder,
        LAMBDA m : /\ medActive[m]
                   /\ PatientRow[MedRow[m].patientId].hasEmail
                   /\ emailNotifications[MedRow[m].patientId])

\* a due filter that keeps every medication found
DueMedicationsUnfiltered(k) == MedicationsFound

\* the due filter of checkMedicationReminders at the tick's HH:MM
DueMedications(k) ==
    SelectSeq(MedicationsFound, LAMBDA m : ScheduleDue(MedRow[m].schedule, ToHHMM(Minute(k))))

\* the patients of the cache whose emailTime === currentTime
PatientsToEmail(cache, k) ==
    SelectSeq(PatientOrder, LAMBDA p : cache[p] # NoTime /\ cache[p] = ToHHMM(Minute(k)))

\* a load that has written only its first patient when the cache is read
ApplyLoadFirst(cache, loaded) ==
    [p \in Patients |-> IF p = PatientOrder[1] /\ loaded[p] # NoTime THEN loaded[p] ELSE cache[p]]

\* the forEach of loadPatientSchedules: set the entry of every loaded patient
ApplyLoad(cache, loaded) ==
    [p \in Patients |-> IF loaded[p] # NoTime THEN loaded[p] ELSE cache[p]]

\* the single-reading classifier of the analysis service
AnalyzeSingleReading(input) ==
    IF input.dataType = "blood_pressure"
    THEN IF input.systolic > 140 \/ input.diastolic > 90 THEN "high"
         ELSE IF input.systolic > 130 \/ input.diastolic > 85 THEN "moderate"
         ELSE "low"
    ELSE IF input.dataType = "blood_sugar"
    THEN IF input.value > 180 THEN "high"
         ELSE IF input.value > 140 THEN "moderate"
         ELSE "low"
    ELSE IF input.dataType = "heart_rate"
    THEN IF input.value > 100 THEN "moderate"
         ELSE IF input.value < 60 THEN "moderate"
         ELSE "low"
    ELSE IF input.dataType = "cholesterol"
    THEN IF input.value > 240 THEN "high"
         ELSE IF input.value > 200 THEN "moderate"
         ELSE "low"
    ELSE "low"

\* the insight text that analyzeSingleReading gives with the risk level
SingleInsight(input) ==
    IF input.dataType = "blood_pressure"
    THEN IF input.systolic > 140 \/ input.diastolic > 90
         THEN "Elevated blood pressure detected"
         ELSE IF input.systolic > 130 \/ input.diastolic > 85
         THEN "Borderline high blood pressure"
         ELSE "Blood pressure within normal range"
    ELSE IF input.dataType = "blood_sugar"
    THEN IF input.value > 180 THEN "High blood sugar level detected"
         ELSE IF input.value > 140 THEN "Elevated blood sugar level"
         ELSE "Blood sugar within target range"
    ELSE IF input.dataType = "heart_rate"
    THEN IF input.value > 100 THEN "Elevated heart rate"
         ELSE IF input.value < 60 THEN "Low heart rate"
         ELSE "Heart rate within normal range"
    ELSE IF input.dataType = "cholesterol"
    THEN IF input.value > 240 THEN "High cholesterol level"
         ELSE IF input.value > 200 THEN "Borderline high cholesterol"
         ELSE "Cholesterol level within desirable range"
    ELSE IF input.dataType = "weight" THEN "Current weight"
    ELSE "Data recorded successfully"

\* getRiskLevel of the client utilities: the four-tier scale
GetRiskLevel(input) ==
    IF input.dataType = "blood_pressure"
    THEN IF input.systolic > 180 \/ input.diastolic > 120 THEN "critical"
         ELSE IF input.systolic > 140 \/ input.diastolic > 90 THEN "high"
         ELSE IF input.systolic > 130 \/ input.diastolic > 85 THEN "moderate"
         ELSE "low"
    ELSE IF input.value = 0 THEN "low"
    ELSE IF input.dataType = "blood_sugar"
    THEN IF input.value > 240 THEN "critical"
         ELSE IF input.value > 180 THEN "high"
         ELSE IF input.value > 140 THEN "moderate"
         ELSE "low"
    ELSE IF input.dataType = "heart_rate"
    THEN IF input.value > 120 \/ input.value < 50 THEN "high"
         ELSE IF input.value > 100 \/ input.value < 60 THEN "moderate"
         ELSE "low"
    ELSE "low"

\* what the stages of analyzeHealthData around the classifier can do: the patient
\* lookup finds the patient, finds none or throws; the history lookup answers or
\* throws; trend, forecast and recommendations run or fail inside
PatientLookups == {"found", "missing", "threw"}

StageRuns ==
    [patient : PatientLookups, history : BOOLEAN, trends : BOOLEAN,
     predictions : BOOLEAN, recommendations : BOOLEAN]

\* analyzeHealthData: the lookups, the classifier and the later stages sit in one
\* try block whose catch returns a fixed analysis; the later stages catch their
\* own failures
AnalyzeHealthData(input, run) ==
    IF run.patient # "found" \/ ~run.history
    THEN [riskLevel |-> "low",
          insights |-> <<"Unable to analyze data at this time">>,
          trends |-> <<>>,
          recommendations |-> <<"Please try again later">>,
          predictions |-> <<>>]
    ELSE [riskLevel |-> AnalyzeSingleReading(input),
          insights |-> <<SingleInsight(input)>>,
          trends |-> IF run.trends THEN <<"trend">>
                     ELSE <<"Unable to analyze trends at this time">>,
          recommendations |-> IF run.recommendations THEN <<"recommendations">>
                              ELSE <<"Continue with your current health management plan">>,
          predictions |-> IF run.predictions THEN <<"prediction">>
                          ELSE <<"Unable to generate predictions at this time">>]

RiskLevels == {"low", "moderate", "high", "critical"}

\* generateRiskAssessment of the analysis routes: the overall risk from the stored
\* riskLevel of the readings
GenerateRiskAssessment(levels) ==
    LET highRiskReadings == SelectSeq(levels, LAMBDA l : l = "high" \/ l = "critical")
        moderateRiskReadings == SelectSeq(levels, LAMBDA l : l = "moderate")
        afterHigh == IF Len(highRiskReadings) > 0 THEN "high" ELSE "low"
    IN IF Len(moderateRiskReadings) > 2 /\ afterHigh = "low" THEN "moderate"
       ELSE afterHigh

\* the loop of comprehensiveRiskAssessment over the first n readings
RECURSIVE OverallAfter(_, _)
OverallAfter(rs, n) ==
    IF n = 0 THEN "low"
    ELSE LET overallRisk == OverallAfter(rs, n - 1)
             riskLevel == AnalyzeSingleReading(rs[n])
         IN IF riskLevel = "high" /\ overallRisk # "critical" THEN "high"
            ELSE IF riskLevel = "moderate" /\ overallRisk = "low" THEN "moderate"
            ELSE overallRisk

\* comprehensiveRiskAssessment: 'unknown' when the store query fails
ComprehensiveRiskAssessment(rs, ok) ==
    IF ok THEN OverallAfter(rs, Len(rs)) ELSE "unknown"

RECURSIVE Sum(_)
Sum(s) == IF s = <<>> THEN 0 ELSE s[1] + Sum(Tail(s))

\* analyzeHealthTrends of the analysis routes: least squares over the index 0..n-1.
\* slope = num / den with den > 0, so slope > 0.1 is 10 * num > den
AnalyzeHealthTrends(values) ==
    LET n == Len(values) IN
    IF n < 3
    THEN [trend |-> "insufficient_data", confidence |-> "low"]
    ELSE LET sumX == Sum([i \in 1..n |-> i - 1])
             sumY == Sum(values)
             sumXY == Sum([i \in 1..n |-> (i - 1) * values[i]])
             sumX2 == Sum([i \in 1..n |-> (i - 1) * (i - 1)])
             num == n * sumXY - sumX * sumY
             den == n * sumX2 - sumX * sumX
         IN [trend |-> IF 10 * num > den THEN "increasing"
                       ELSE IF 10 * num < 0 - den THEN "decreasing"
                       ELSE "stable",
             confidence |-> IF n >= 7 THEN "high" ELSE IF n >= 3 THEN "medium" ELSE "low"]

\* the two averages of isTrendIncreasing and isTrendDecreasing, times 3: the first
\* three values (named recentAvg) and the last three (named previousAvg)
FirstThree(values) == Sum(SubSeq(values, 1, 3))

LastThree(values) == Sum(SubSeq(values, Len(values) - 2, Len(values)))

\* recentAvg > previousAvg * 1.05
IsTrendIncreasing(values) ==
    Len(values) >= 3 /\ 100 * FirstThree(values) > 105 * LastThree(values)

\* recentAvg < previousAvg * 0.95
IsTrendDecreasing(values) ==
    Len(values) >= 3 /\ 100 * FirstThree(values) < 95 * LastThree(values)

\* analyzeTrends of the analysis service, on the values in the order of the data
AnalyzeTrends(data) ==
    IF Len(data) < 3
    THEN [trends |-> <<"Insufficient data for trend analysis">>,
          recommendations |-> <<"Continue tracking more data points">>]
    ELSE LET values == SelectSeq(data, LAMBDA v : v > 0) IN
         IF Len(values) < 3
         THEN [trends |-> <<"Not enough valid data for trend analysis">>,
               recommendations |-> <<>>]
         ELSE IF IsTrendIncreasing(values)
         THEN [trends |-> <<"Increasing trend">>, recommendations |-> <<"Monitor closely">>]
         ELSE IF IsTrendDecreasing(values)
         THEN [trends |-> <<"Decreasing trend">>,
               recommendations |-> <<"Continue current management">>]
         ELSE [trends |-> <<"Stable trend">>,
               recommendations |-> <<"Maintain current healthy habits">>]

\* the last n elements of s (all of s when it is shorter): slice(-n)
LastOf(s, n) == IF Len(s) <= n THEN s ELSE SubSeq(s, Len(s) - n + 1, Len(s))

\* the first n elements of s: slice(0, n)
FirstOf(s, n) == IF Len(s) <= n THEN s ELSE SubSeq(s, 1, n)

\* generatePredictions of the analysis service; the average is kept as the sum
\* and the number of the values it is taken over
GeneratePredictions(data) ==
    IF Len(data) < 5
    THEN [predictions |-> <<"Need more data points for accurate predictions">>,
          sum |-> 0, count |-> 0]
    ELSE LET recentValues == FirstOf(data, 7)
             trend == IF IsTrendIncreasing(data) THEN "increase"
                      ELSE IF IsTrendDecreasing(data) THEN "decrease"
                      ELSE "stabilize"
         IN [predictions |-> <<"is expected to remain around", trend>>,
             sum |-> Sum(recentValues), count |-> Len(recentValues)]

\* Math.round(x * 100) / 100 for x = num / den, in hundredths
RoundHundredths(num, den) == (2 * 100 * num + den) \div (2 * den)

\* generateHealthPredictions of the analysis routes, on the historical values,
\* oldest first; predictedValue in hundredths
GenerateHealthPredictions(values) ==
    IF Len(values) < 7
    THEN [prediction |-> "insufficient_data", confidence |-> "low", trend |-> "none",
          predictedValue |-> 0]
    ELSE LET recentValues == LastOf(values, 7)
             trend == AnalyzeHealthTrends(LastOf(values, 14))
             factor == IF trend.trend = "increasing" THEN 105
                       ELSE IF trend.trend = "decreasing" THEN 95
                       ELSE 100
         IN [prediction |-> "value", confidence |-> trend.confidence,
             trend |-> trend.trend,
             predictedValue |->
                RoundHundredths(Sum(recentValues) * factor, Len(recentValues) * 100)]

\* Math.round(num / den) for num >= 0 and den > 0
Round(num, den) == (2 * num + den) \div (2 * den)

Min(a, b) == IF a <= b THEN a ELSE b

\* calculateMedicationAdherence: q.active active medications and q.completed
\* completed medication reminders of the last 7 days are in the store;
\* q.medsOk and q.remindersOk tell whether the two queries answer or fail
CalculateMedicationAdherence(q) ==
    IF ~q.medsOk THEN 0
    ELSE IF q.active = 0 THEN 100
    ELSE IF ~q.remindersOk THEN 0
    ELSE Min(100, Round(q.completed * 100, q.active * 7))

\* priorityOrder of the sort callbacks
PriorityOrder(priority) ==
    IF priority = "high" THEN 3 ELSE IF priority = "medium" THEN 2 ELSE 1

\* one step of a stable sort with the callback
\* (a, b) => priorityOrder[b.priority] - priorityOrder[a.priority]:
\* x goes behind every element that the callback does not put after it
InsertByPriority(sorted, x) ==
    LET k == Cardinality({j \in 1..Len(sorted) :
                 PriorityOrder(sorted[j].priority) >= PriorityOrder(x.priority)})
    IN SubSeq(sorted, 1, k) \o <<x>> \o SubSeq(sorted, k + 1, Len(sorted))

RECURSIVE SortFirst(_, _)
SortFirst(recs, n) ==
    IF n = 0 THEN <<>> ELSE InsertByPriority(SortFirst(recs, n - 1), recs[n])

\* a return without the sort
SortByPriorityNone(recs) == recs

\* recommendations.sort(...) with the priority callback (Array.prototype.sort is
\* stable)
SortByPriority(recs) == SortFirst(recs, Len(recs))

Rec(category, priority) == [category |-> category, priority |-> priority]

\* the rules of generatePersonalizedRecommendations, in the order of the pushes.
\* q.sugar: the blood sugar values of the recent data; q.highBpCount: the recent
\* blood pressure readings above 140/90; q.activity: the recent activity entries;
\* q.adherence: what the store holds for calculateMedicationAdherence
PersonalizedRules(q) ==
    (IF /\ "diabetes" \in q.conditions
        /\ Len(q.sugar) > 0
        /\ Sum(q.sugar) > 140 * Len(q.sugar)
     THEN <<Rec("diet", "high")>> ELSE <<>>)
    \o (IF "hypertension" \in q.conditions /\ q.highBpCount > 0
        THEN <<Rec("lifestyle", "medium")>> ELSE <<>>)
    \o (IF q.activity < 3 THEN <<Rec("activity", "medium")>> ELSE <<>>)
    \o (IF CalculateMedicationAdherence(q.adherence) < 80
        THEN <<Rec("medication", "high")>> ELSE <<>>)

GeneratePersonalizedRecommendations(q) == SortByPriority(PersonalizedRules(q))

\* the rules of generateComprehensiveRecommendations, in the order of the pushes.
\* q.bp: the blood pressure readings, q.medications: the number of medications,
\* q.unmetGoals: the goals not achieved with progress below 50
ComprehensiveRules(q) ==
    (IF Len(q.bp) > 0 /\ (q.bp[1].systolic > 140 \/ q.bp[1].diastolic > 90)
     THEN <<Rec("lifestyle", "high")>> ELSE <<>>)
    \o (IF q.medications > 0 /\ CalculateMedicationAdherence(q.adherence) < 80
        THEN <<Rec("medication", "high")>> ELSE <<>>)
    \o (IF q.unmetGoals > 0 THEN <<Rec("goals", "medium")>> ELSE <<>>)
    \o <<Rec("wellness", "low")>>

GenerateComprehensiveRecommendations(q) == SortByPriority(ComprehensiveRules(q))

\* what the transport (the Brevo API behind axios.post) does with one mail: no
\* API key is configured; the mail is accepted; the answer has no body; the
\* request is rejected with a response body, with a message only, or with neither
Transports ==
    {"notConfigured", "accepted", "noBody", "rejectedBody", "rejectedMessage",
     "rejectedEmpty"}

\* the result of a send: the fields the callers read, and threw for an exception
\* that leaves the function
SendResult(id, error, simulated) ==
    [id |-> id, error |-> error, simulated |-> simulated, threw |-> FALSE]

Thrown == [id |-> FALSE, error |-> FALSE, simulated |-> FALSE, threw |-> TRUE]

\* the try block of sendViaBrevo
BrevoTry(transport) ==
    IF transport = "notConfigured" THEN SendResult(FALSE, FALSE, TRUE)
    ELSE IF transport = "accepted" THEN SendResult(TRUE, FALSE, FALSE)
    ELSE Thrown

\* sendViaBrevo: the catch returns {error: response data or message, simulated: true}
SendViaBrevo(transport) ==
    IF BrevoTry(transport).threw
    THEN SendResult(FALSE, transport # "rejectedEmpty", TRUE)
    ELSE BrevoTry(transport)

\* the try block of a send function: the mail is built from the patient (a missing
\* patient throws) and handed to sendViaBrevo
SendTry(q) ==
    IF ~q.patient THEN Thrown ELSE SendViaBrevo(q.transport)

\* a send function without its catch
SendNoCatch(q) == SendTry(q)

\* sendMedicationReminder, sendMotivationalEmail and sendHealthAlert have the same
\* frame: the catch returns {error: error.message, simulated: true}
Send(q) ==
    IF SendTry(q).threw THEN SendResult(FALSE, TRUE, TRUE) ELSE SendTry(q)

SendMedicationReminder(q) == Send(q)

SendMotivationalEmail(q) == Send(q)

SendHealthAlert(q) == Send(q)

\* the status the scheduler reads from a result: error first, then simulated
Status(result) ==
    IF result.threw THEN "none"
    ELSE IF result.error THEN "error"
    ELSE IF result.simulated THEN "simulated"
    ELSE "delivered"

\* Number.NaN in the results of ParseInt
NaN == 0 - 1

IsDigit(c) == c \in Range(Digits)

DigitValue(c) == CHOOSE d \in 0..9 : Digits[d + 1] = c

\* String.prototype.trim() for blanks
RECURSIVE Trim(_)
Trim(s) ==
    IF s = <<>> THEN s
    ELSE IF s[1] = " " THEN Trim(Tail(s))
    ELSE IF s[Len(s)] = " " THEN Trim(SubSeq(s, 1, Len(s) - 1))
    ELSE s

\* the number that the digits of s from position k on continue
RECURSIVE LeadingDigits(_, _, _)
LeadingDigits(s, k, acc) ==
    IF k > Len(s) \/ ~IsDigit(s[k]) THEN acc
    ELSE LeadingDigits(s, k + 1, 10 * acc + DigitValue(s[k]))

\* parseInt(s) for unsigned texts: the leading digits, NaN when there is none
ParseInt(s) ==
    LET t == Trim(s)
    IN IF t = <<>> \/ ~IsDigit(t[1]) THEN NaN ELSE LeadingDigits(t, 1, 0)

\* position of the first '/' in s at or after k, or Len(s) + 1
RECURSIVE SlashFrom(_, _)
SlashFrom(s, k) ==
    IF k > Len(s) THEN Len(s) + 1
    ELSE IF s[k] = "/" THEN k
    ELSE SlashFrom(s, k + 1)

\* value.split('/')
RECURSIVE SplitSlash(_)
SplitSlash(s) ==
    LET c == SlashFrom(s, 1) IN
    IF c > Len(s) THEN <<s>>
    ELSE <<SubSeq(s, 1, c - 1)>> \o SplitSlash(SubSeq(s, c + 1, Len(s)))

\* const [systolic, diastolic] = value.split('/').map(v => parseInt(v.trim()));
\* a missing second part is undefined, which isNaN takes for NaN
ParseBloodPressure(text) ==
    LET parts == SplitSlash(text)
    IN [systolic |-> ParseInt(Trim(parts[1])),
        diastolic |-> IF Len(parts) >= 2 THEN ParseInt(Trim(parts[2])) ELSE NaN]

\* what the store does with a text written to HealthData.value, a FLOAT column:
\* it keeps the text, it converts it to a number (0 for a JSON text), or it
\* refuses the row.  The dialect and its mode are settings of the deployment.
ValueColumns == {"keeps", "converts", "refuses"}

NoValue == [kind |-> "none", systolic |-> 0, diastolic |-> 0, number |-> 0]

\* what follows the creation of the row: the analysis answers and the writes
\* succeed; the analysis is not back after 10 seconds; healthData.update rejects;
\* Feedback.create rejects
AfterCreate == {"ok", "timeout", "updateFails", "feedbackFails"}

\* the try block of the route around the analysis, given the risk level the
\* analysis returns: the first failure leaves it for the catch, which writes
\* riskLevel 'unknown'
AnalyseAndAlert(riskLevel, after) ==
    IF after = "timeout"
    THEN [riskLevel |-> "unknown", analysed |-> "none", feedback |-> FALSE,
          alert |-> FALSE]
    ELSE IF after = "updateFails"
    THEN [riskLevel |-> "unknown", analysed |-> riskLevel, feedback |-> FALSE,
          alert |-> FALSE]
    ELSE IF after = "feedbackFails" /\ riskLevel \in {"moderate", "high"}
    THEN [riskLevel |-> "unknown", analysed |-> riskLevel, feedback |-> FALSE,
          alert |-> FALSE]
    ELSE [riskLevel |-> riskLevel, analysed |-> riskLevel,
          feedback |-> riskLevel \in {"moderate", "high"},
          alert |-> riskLevel = "high"]

\* POST /health-data for a blood_pressure value given as text, for an existing
\* patient: the response status, whether a row was created and what its value
\* column holds, the risk level the analysis returned and the one that is
\* stored, and whether feedback was created and sendHealthAlert called
PostHealthData(q) ==
    LET bp == ParseBloodPressure(q.value)
        reading == [dataType |-> "blood_pressure", value |-> 0,
                    systolic |-> bp.systolic, diastolic |-> bp.diastolic]
        done == AnalyseAndAlert(AnalyzeHealthData(reading, q.run).riskLevel, q.after)
    IN IF bp.systolic = NaN \/ bp.diastolic = NaN
       THEN [status |-> 400, created |-> FALSE, stored |-> NoValue, riskLevel |-> "none",
             analysed |-> "none", feedback |-> FALSE, alert |-> FALSE]
       ELSE IF q.column = "refuses"
       THEN [status |-> 500, created |-> FALSE, stored |-> NoValue, riskLevel |-> "none",
             analysed |-> "none", feedback |-> FALSE, alert |-> FALSE]
       ELSE [status |-> 200, created |-> TRUE,
             stored |-> IF q.column = "keeps"
                        THEN [kind |-> "pair", systolic |-> bp.systolic,
                              diastolic |-> bp.diastolic, number |-> 0]
                        ELSE [kind |-> "number", systolic |-> 0, diastolic |-> 0,
                              number |-> 0],
             riskLevel |-> done.riskLevel,
             analysed |-> done.analysed,
             feedback |-> done.feedback,
             alert |-> done.alert]

\* reading ids from the latest to the earliest (order by recordedAt DESC)
RECURSIVE Descending(_)
Descending(n) == IF n = 0 THEN <<>> ELSE <<n>> \o Descending(n - 1)

\* the query of checkAndSendAlerts: high or critical, not yet marked, at most 3.
\* Every reading of a run is younger than 24 hours.
CriticalData(rs, p) ==
    LET found == SelectSeq(Descending(MaxReadings),
                     LAMBDA r : /\ rs[r].used
                                /\ rs[r].patientId = p
                                /\ rs[r].riskLevel \in {"high", "critical"}
                                /\ rs[r].alertSent # TRUE)
    IN IF Len(found) > AlertLimit THEN SubSeq(found, 1, AlertLimit) ELSE found

\* what a NotificationSink call gives back: a delivery, a simulation, an error
\* status, or an exception
Outcomes == {"delivered", "simulated", "error", "threw"}

Failed(outcome) == outcome \in {"error", "threw"}

(***************************************************************************)
(* start() and stop().                                                     *)
(***************************************************************************)
\* a start() without the isRunning test
StartGuardOpen == TRUE

\* the guard of start(): if (this.isRunning) return
StartGuard == ~isRunning

LoadTask(origin) ==
    [Idle EXCEPT !.kind = "load", !.origin = origin, !.pc = "loadQuery"]

MedTask(origin) ==
    [Idle EXCEPT !.kind = "med", !.origin = origin, !.pc = "query", !.at = now]

DailyTask(origin, queue) ==
    [Idle EXCEPT !.kind = "daily", !.origin = origin, !.pc = "context",
                 !.queue = queue, !.idx = 1]

Start ==
    /\ StartGuard
    /\ HasFree
    /\ Len(initialChecks) < MaxPending
    /\ \E g \in 1..MaxGen :
        /\ g = handles + 1
        /\ handles' = g
        /\ timers' = timers \cup
                {[kind |-> k, gen |-> g, created |-> now, last |-> now] :
                    k \in {"medication", "daily", "reload"}}
        /\ mainInterval' = g
        /\ dailyUpdateInterval' = g
        /\ scheduleReloadInterval' = g
    /\ isRunning' = TRUE
    /\ tasks' = [tasks EXCEPT ![FreeSlot] = LoadTask("start")]
    /\ initialChecks' = Append(initialChecks, now)
    /\ UNCHANGED <<now, patientSchedules, checkCount, storeTime, medActive,
                   emailNotifications, pendingDaily, call, readings>>
    /\ UNCHANGED logVars

\* stop() marks nothing in the code; cut records, for the tasks that are inside
\* their send loop, that stop() ran while they were
CutByStop(t) ==
    IF isRunning /\ ((t.kind = "med" /\ t.pc \in {"send", "wait"}) \/ t.kind = "daily")
    THEN [t EXCEPT !.cut = TRUE]
    ELSE t

Stop ==
    /\ timers' = {t \in timers :
            ~ \/ (t.kind = "medication" /\ t.gen = mainInterval)
              \/ (t.kind = "daily" /\ t.gen = dailyUpdateInterval)
              \/ (t.kind = "reload" /\ t.gen = scheduleReloadInterval)}
    /\ patientSchedules' = [p \in Patients |-> NoTime]
    /\ isRunning' = FALSE
    /\ tasks' = [i \in Slots |-> CutByStop(tasks[i])]
    /\ \/ isRunning
       \/ patientSchedules # patientSchedules'
    /\ UNCHANGED <<now, mainInterval, dailyUpdateInterval, scheduleReloadInterval,
                   handles, initialChecks, checkCount, storeTime, medActive,
                   emailNotifications, pendingDaily, call, readings>>
    /\ UNCHANGED logVars

(***************************************************************************)
(* The clock and the timers.                                               *)
(***************************************************************************)
\* The one-shot check of start() fires 5 seconds after start(): in the minute of
\* start() or in the next one, so the clock does not pass that minute before.
AdvanceWithin(last) ==
    /\ now < last
    /\ \A j \in 1..Len(initialChecks) :
            Minute(now + 1) - Minute(initialChecks[j]) <= 1
    /\ now' = now + 1
    /\ UNCHANGED <<patientSchedules, checkCount, storeTime, medActive,
                   emailNotifications, pendingDaily, call, readings, tasks>>
    /\ UNCHANGED schedVars
    /\ UNCHANGED logVars

\* the clock of a run that begins at 08:00
Advance == AdvanceWithin(MaxClock)

\* a setInterval timer fires once every Period minutes after it was created
TimerDue(t) ==
    /\ Minute(now) > Minute(t.created)
    /\ (Minute(now) - Minute(t.created)) % Period(t.kind) = 0
    /\ t.last # now

Touch(t) == timers' = (timers \ {t}) \cup {[t EXCEPT !.last = now]}

\* the synchronous part of checkMedicationReminders, up to Medication.findAll
StartMedCheck(origin) ==
    IF InMedHours(now)
    THEN /\ HasFree
         /\ tasks' = [tasks EXCEPT ![FreeSlot] = MedTask(origin)]
    ELSE UNCHANGED tasks

\* the synchronous part of checkDailyUpdates, up to the first sendDailyUpdate;
\* manualEmailCheck goes on to checkMedicationReminders when nothing is awaited
StartDailyCheck(origin) ==
    /\ checkCount < MaxChecks
    /\ checkCount' = checkCount + 1
    /\ LET queue == IF InDailyHours(now) THEN PatientsToEmail(patientSchedules, now)
                    ELSE <<>>
       IN IF queue # <<>>
          THEN /\ HasFree
               /\ tasks' = [tasks EXCEPT ![FreeSlot] =
                                [DailyTask(origin, queue) EXCEPT !.at = now]]
          ELSE IF origin = "manual"
          THEN StartMedCheck("manual")
          ELSE UNCHANGED tasks

MedIntervalFire ==
    /\ \E t \in timers :
        /\ t.kind = "medication"
        /\ TimerDue(t)
        /\ Touch(t)
    /\ StartMedCheck("interval")
    /\ UNCHANGED <<now, isRunning, mainInterval, dailyUpdateInterval,
                   scheduleReloadInterval, handles, initialChecks, patientSchedules,
                   checkCount, storeTime, medActive,
                   emailNotifications, pendingDaily, call, readings>>
    /\ UNCHANGED logVars

InitialCheckFire ==
    /\ initialChecks # <<>>
    /\ initialChecks' = Tail(initialChecks)
    /\ StartMedCheck("initial")
    /\ UNCHANGED <<now, isRunning, timers, mainInterval, dailyUpdateInterval,
                   scheduleReloadInterval, handles, patientSchedules, checkCount, storeTime, medActive,
                   emailNotifications, pendingDaily, call,
                   readings>>
    /\ UNCHANGED logVars

DailyIntervalFire ==
    /\ \E t \in timers :
        /\ t.kind = "daily"
        /\ TimerDue(t)
        /\ Touch(t)
    /\ StartDailyCheck("interval")
    /\ UNCHANGED <<now, isRunning, mainInterval, dailyUpdateInterval,
                   scheduleReloadInterval, handles, initialChecks, patientSchedules,
                   storeTime, medActive, emailNotifications, pendingDaily, call, readings>>
    /\ UNCHANGED logVars

ReloadIntervalFire ==
    /\ \E t \in timers :
        /\ t.kind = "reload"
        /\ TimerDue(t)
        /\ Touch(t)
    /\ HasFree
    /\ tasks' = [tasks EXCEPT ![FreeSlot] = LoadTask("interval")]
    /\ UNCHANGED <<now, isRunning, mainInterval, dailyUpdateInterval,
                   scheduleReloadInterval, handles, initialChecks, patientSchedules,
                   checkCount, storeTime, medActive,
                   emailNotifications, pendingDaily, call, readings>>
    /\ UNCHANGED logVars

(***************************************************************************)
(* Requests.                                                               *)
(***************************************************************************)
ManualEmailCheck ==
    /\ StartDailyCheck("manual")
    /\ UNCHANGED <<now, patientSchedules, storeTime, medActive,
                   emailNotifications, pendingDaily, call, readings>>
    /\ UNCHANGED schedVars
    /\ UNCHANGED logVars

\* POST /send-daily-update: sendDailyUpdate for one patient
SendDailyUpdateRoute ==
    /\ HasFree
    /\ \E p \in Patients :
        tasks' = [tasks EXCEPT ![FreeSlot] = DailyTask("route", <<p>>)]
    /\ UNCHANGED <<now, patientSchedules, checkCount, storeTime, medActive,
                   emailNotifications, pendingDaily, call, readings>>
    /\ UNCHANGED schedVars
    /\ UNCHANGED logVars

\* POST /scheduler/reload and PUT /preferences: loadPatientSchedules
ReloadRoute ==
    /\ HasFree
    /\ tasks' = [tasks EXCEPT ![FreeSlot] = LoadTask("route")]
    /\ UNCHANGED <<now, patientSchedules, checkCount, storeTime, medActive,
                   emailNotifications, pendingDaily, call, readings>>
    /\ UNCHANGED schedVars
    /\ UNCHANGED logVars

\* a patient's preferredEmailTime is written (profile or preferences update)
UpdateEmailTimeIn(texts) ==
    /\ \E p \in Patients, t \in texts :
        /\ storeTime[p] # t
        /\ storeTime' = [storeTime EXCEPT ![p] = t]
    /\ UNCHANGED <<now, patientSchedules, checkCount, medActive,
                   emailNotifications, pendingDaily, call, readings, tasks>>
    /\ UNCHANGED schedVars
    /\ UNCHANGED logVars

\* a patient's row leaves the store (or loses its preferred email time): from now
\* on Patient.findAll of loadPatientSchedules does not return the patient
RemovePatient ==
    /\ \E p \in Patients :
        /\ storeTime[p] # NoTime
        /\ storeTime' = [storeTime EXCEPT ![p] = NoTime]
    /\ UNCHANGED <<now, patientSchedules, checkCount, medActive,
                   emailNotifications, pendingDaily, call, readings, tasks>>
    /\ UNCHANGED schedVars
    /\ UNCHANGED logVars

(***************************************************************************)
(* The continuations of checkMedicationReminders.                          *)
(***************************************************************************)
\* Medication.findAll answers: a failure ends the check in the outer catch, else
\* the due medications are filtered and the send loop starts
MedQuery(i) ==
    /\ tasks[i].kind = "med"
    /\ tasks[i].pc = "query"
    /\ \E ok \in BOOLEAN :
        LET due == DueMedications(tasks[i].at)
        IN tasks' = [tasks EXCEPT ![i] =
                IF ~ok \/ due = <<>> THEN Idle
                ELSE [@ EXCEPT !.pc = "send", !.queue = due, !.idx = 1]]
    /\ UNCHANGED <<now, patientSchedules, checkCount, storeTime, medActive,
                   emailNotifications, pendingDaily, call, readings>>
    /\ UNCHANGED schedVars
    /\ UNCHANGED logVars

\* the loop body up to the await: emailService.sendMedicationReminder is called
MedSend(i) ==
    /\ tasks[i].kind = "med"
    /\ tasks[i].pc = "send"
    /\ LET m == tasks[i].queue[tasks[i].idx]
       IN remCount' = [remCount EXCEPT ![m][tasks[i].at] = Sat(@)]
    /\ tasks' = [tasks EXCEPT ![i].pc = "wait"]
    /\ UNCHANGED <<now, patientSchedules, checkCount, storeTime, medActive,
                   emailNotifications, pendingDaily, call, readings, alertCount,
                   dailyCount>>
    /\ UNCHANGED schedVars

\* a send loop that a failed delivery ends
MedAfterResultAbort(t, outcome) ==
    IF t.idx = Len(t.queue) \/ Failed(outcome) THEN Idle
    ELSE [t EXCEPT !.pc = "send", !.idx = t.idx + 1]

\* after the send of one item answered (and the 500 ms pause, which an exception
\* skips): the per-item try/catch goes on with the next item
MedAfterResult(t, outcome) ==
    IF t.idx = Len(t.queue) THEN Idle
    ELSE [t EXCEPT !.pc = "send", !.idx = t.idx + 1,
                   !.hadError = t.hadError \/ Failed(outcome)]

MedResult(i) ==
    /\ tasks[i].kind = "med"
    /\ tasks[i].pc = "wait"
    /\ \E outcome \in Outcomes :
        tasks' = [tasks EXCEPT ![i] = MedAfterResult(tasks[i], outcome)]
    /\ UNCHANGED <<now, patientSchedules, checkCount, storeTime, medActive,
                   emailNotifications, pendingDaily, call, readings>>
    /\ UNCHANGED schedVars
    /\ UNCHANGED logVars

(***************************************************************************)
(* The continuations of checkDailyUpdates, sendDailyUpdate and             *)
(* checkAndSendAlerts.                                                     *)
(***************************************************************************)
\* sendDailyUpdate returned for the current patient (and the 2 s pause passed):
\* the next patient, or the end of the check; manualEmailCheck then goes on to
\* checkMedicationReminders
PatientDone(t) ==
    IF t.idx = Len(t.queue)
    THEN IF t.origin = "manual" /\ InMedHours(now) THEN MedTask("manual") ELSE Idle
    ELSE [t EXCEPT !.pc = "context", !.idx = t.idx + 1, !.items = <<>>, !.aidx = 0]

\* the adherence and goal queries answered (a failure of either is caught and the
\* default context kept): emailService.sendMotivationalEmail is called
DailyContext(i) ==
    /\ tasks[i].kind = "daily"
    /\ tasks[i].pc = "context"
    /\ \E ok \in BOOLEAN :
        LET t == [tasks[i] EXCEPT !.failed = tasks[i].failed \/ ~ok, !.pc = "motivWait"]
        IN tasks' = [tasks EXCEPT ![i] = t]
    /\ dailyCount' = IF tasks[i].origin \in TimerOrigins
                      THEN [dailyCount EXCEPT ![tasks[i].queue[tasks[i].idx]] = Sat(@)]
                      ELSE dailyCount
    /\ UNCHANGED <<now, patientSchedules, checkCount, storeTime, medActive, emailNotifications,
                   pendingDaily, call, readings, remCount, alertCount>>
    /\ UNCHANGED schedVars

\* the motivational email answered: alerts are checked after a real delivery only
DailyAfterMotivational(t, outcome) ==
    LET u == [t EXCEPT !.hadError = t.hadError \/ Failed(outcome)]
    IN IF outcome = "delivered" THEN [u EXCEPT !.pc = "alertQuery"]
       ELSE PatientDone(u)

DailyMotivResult(i) ==
    /\ tasks[i].kind = "daily"
    /\ tasks[i].pc = "motivWait"
    /\ \E outcome \in Outcomes :
        tasks' = [tasks EXCEPT ![i] = DailyAfterMotivational(tasks[i], outcome)]
    /\ UNCHANGED <<now, patientSchedules, checkCount, storeTime, medActive,
                   emailNotifications, pendingDaily, call, readings>>
    /\ UNCHANGED schedVars
    /\ UNCHANGED logVars

\* HealthData.findAll of checkAndSendAlerts answered
AlertQuery(i) ==
    /\ tasks[i].kind = "daily"
    /\ tasks[i].pc = "alertQuery"
    /\ \E ok \in BOOLEAN :
        LET t == tasks[i]
            found == CriticalData(readings, t.queue[t.idx])
        IN tasks' = [tasks EXCEPT ![i] =
                IF ~ok THEN PatientDone([t EXCEPT !.failed = TRUE])
                ELSE IF found = <<>> THEN PatientDone(t)
                ELSE [t EXCEPT !.pc = "alert", !.items = found, !.aidx = 1]]
    /\ UNCHANGED <<now, patientSchedules, checkCount, storeTime, medActive,
                   emailNotifications, pendingDaily, call, readings>>
    /\ UNCHANGED schedVars
    /\ UNCHANGED logVars

\* the analysis of the reading answered: emailService.sendHealthAlert is called
AlertSend(i) ==
    /\ tasks[i].kind = "daily"
    /\ tasks[i].pc = "alert"
    /\ LET t == tasks[i]
           r == t.items[t.aidx]
       IN alertCount' = [alertCount EXCEPT ![r] = Sat(@)]
    /\ tasks' = [tasks EXCEPT ![i].pc = "alertWait"]
    /\ UNCHANGED <<now, patientSchedules, checkCount, storeTime, medActive,
                   emailNotifications, pendingDaily, call, readings, remCount,
                   dailyCount>>
    /\ UNCHANGED schedVars

\* the alert answered: a real delivery marks the reading (the update can fail or
\* write nothing), then the next reading or the end of this patient's update
AlertResult(i) ==
    /\ tasks[i].kind = "daily"
    /\ tasks[i].pc = "alertWait"
    /\ \E outcome \in Outcomes, marked \in BOOLEAN :
        LET t == tasks[i]
            r == t.items[t.aidx]
        IN /\ (marked => outcome = "delivered")
           /\ readings' = IF marked THEN [readings EXCEPT ![r].alertSent = TRUE]
                          ELSE readings
           /\ tasks' = [tasks EXCEPT ![i] =
                    IF t.aidx = Len(t.items) THEN PatientDone(t)
                    ELSE [t EXCEPT !.pc = "alert", !.aidx = t.aidx + 1]]
    /\ UNCHANGED <<now, patientSchedules, checkCount, storeTime, medActive,
                   emailNotifications, pendingDaily, call>>
    /\ UNCHANGED schedVars
    /\ UNCHANGED logVars

(***************************************************************************)
(* The continuations of loadPatientSchedules.                              *)
(***************************************************************************)
\* the store reads the patients with a preferred email time, or fails
LoadRead(i) ==
    /\ tasks[i].kind = "load"
    /\ tasks[i].pc = "loadQuery"
    /\ \E ok \in BOOLEAN :
        tasks' = [tasks EXCEPT ![i] =
            IF ok THEN [@ EXCEPT !.pc = "loadApply", !.loaded = storeTime]
            ELSE Idle]
    /\ UNCHANGED <<now, patientSchedules, checkCount, storeTime, medActive,
                   emailNotifications, pendingDaily, call, readings>>
    /\ UNCHANGED schedVars
    /\ UNCHANGED logVars

\* the await returns: the forEach sets every loaded patient in one callback
LoadApply(i) ==
    /\ tasks[i].kind = "load"
    /\ tasks[i].pc = "loadApply"
    /\ patientSchedules' = ApplyLoad(patientSchedules, tasks[i].loaded)
    /\ tasks' = [tasks EXCEPT ![i] = Idle]
    /\ UNCHANGED <<now, checkCount, storeTime, medActive,
                   emailNotifications, pendingDaily, call, readings>>
    /\ UNCHANGED schedVars
    /\ UNCHANGED logVars

(***************************************************************************)
(* POST /health-data: a reading is stored, analysed, and alerted when high. *)
(***************************************************************************)
\* the runs of the analysis during a submission: what the patient lookup does
\* (the riskLevel that is stored does not depend on the other stages)
SubmitRuns ==
    {run \in StageRuns :
        run.history /\ run.trends /\ run.predictions /\ run.recommendations}

\* analysed is FALSE when the analysis timed out or a write after it failed: the
\* catch of the route writes riskLevel 'unknown'
SubmitReading ==
    /\ \E r \in ReadingIds, p \in Patients, input \in ReadingInputs, run \in SubmitRuns,
          analysed \in BOOLEAN :
        /\ ~readings[r].used
        /\ \A q \in ReadingIds : q < r => readings[q].used
        /\ LET risk == IF analysed THEN AnalyzeHealthData(input, run).riskLevel
                       ELSE "unknown"
           IN /\ readings' = [readings EXCEPT ![r] =
                    [used |-> TRUE, patientId |-> p, dataType |-> input.dataType,
                     value |-> input.value, systolic |-> input.systolic,
                     diastolic |-> input.diastolic, riskLevel |-> risk,
                     alertSent |-> FALSE]]
              /\ alertCount' = IF risk = "high"
                                THEN [alertCount EXCEPT ![r] = Sat(@)]
                                ELSE alertCount
    /\ UNCHANGED <<now, patientSchedules, checkCount, storeTime, medActive,
                   emailNotifications, pendingDaily, call, tasks, remCount,
                   dailyCount>>
    /\ UNCHANGED schedVars

Next ==
    \/ Start
    \/ Stop
    \/ Advance
    \/ MedIntervalFire
    \/ InitialCheckFire
    \/ DailyIntervalFire
    \/ ReloadIntervalFire
    \/ ManualEmailCheck
    \/ SendDailyUpdateRoute
    \/ ReloadRoute
    \/ UpdateEmailTimeIn(TimeTexts)
    \/ RemovePatient
    \/ SubmitReading
    \/ \E i \in Slots : MedQuery(i)
    \/ \E i \in Slots : MedSend(i)
    \/ \E i \in Slots : MedResult(i)
    \/ \E i \in Slots : DailyContext(i)
    \/ \E i \in Slots : DailyMotivResult(i)
    \/ \E i \in Slots : AlertQuery(i)
    \/ \E i \in Slots : AlertSend(i)
    \/ \E i \in Slots : AlertResult(i)
    \/ \E i \in Slots : LoadRead(i)
    \/ \E i \in Slots : LoadApply(i)

Spec == Init /\ [][Next]_vars

(***************************************************************************)
(* The specifications the claims are checked under.  Each one is Spec with *)
(* a part of the deployment switched off in the initial state and the      *)
(* actions that cannot happen then left out.                               *)
(***************************************************************************)
\* medication reminders: every medication is active, every preferred email time
\* is stored as HH:MM:SS, no reading is submitted
InitMed ==
    /\ Init
    /\ now = 1
    /\ emailNotifications = [p \in Patients |-> TRUE]
    /\ storeTime = [p \in Patients |-> T083000]
    /\ medActive = [m \in Medications |-> TRUE]

NextMed ==
    \/ Start
    \/ Stop
    \/ Advance
    \/ MedIntervalFire
    \/ InitialCheckFire
    \/ ManualEmailCheck
    \/ \E i \in Slots : MedQuery(i)
    \/ \E i \in Slots : MedSend(i)
    \/ \E i \in Slots : MedResult(i)
    \/ \E i \in Slots : LoadRead(i)
    \/ \E i \in Slots : LoadApply(i)

SpecMed == InitMed /\ [][NextMed]_vars

\* daily updates and alerts: no medication is active
InitDaily ==
    /\ Init
    /\ now = 1
    /\ emailNotifications = [p \in Patients |-> TRUE]
    /\ storeTime \in [Patients -> {T083000, T0830}]
    /\ medActive = [m \in Medications |-> FALSE]

NextDaily ==
    \/ Start
    \/ Advance
    \/ InitialCheckFire
    \/ DailyIntervalFire
    \/ SendDailyUpdateRoute
    \/ SubmitReading
    \/ \E i \in Slots : MedQuery(i)
    \/ \E i \in Slots : DailyContext(i)
    \/ \E i \in Slots : DailyMotivResult(i)
    \/ \E i \in Slots : AlertQuery(i)
    \/ \E i \in Slots : AlertSend(i)
    \/ \E i \in Slots : AlertResult(i)
    \/ \E i \in Slots : LoadRead(i)
    \/ \E i \in Slots : LoadApply(i)

SpecDaily == InitDaily /\ [][NextDaily]_vars

\* the schedule cache and the timers: no medication is active and the preferred
\* email times are stored as HH:MM:SS
InitLoad ==
    /\ Init
    /\ now = 1
    /\ emailNotifications = [p \in Patients |-> TRUE]
    /\ storeTime \in [Patients -> SecondsTexts]
    /\ medActive = [m \in Medications |-> FALSE]

NextLoad ==
    \/ Start
    \/ Stop
    \/ Advance
    \/ InitialCheckFire
    \/ ReloadIntervalFire
    \/ ReloadRoute
    \/ UpdateEmailTimeIn(SecondsTexts)
    \/ \E i \in Slots : MedQuery(i)
    \/ \E i \in Slots : LoadRead(i)
    \/ \E i \in Slots : LoadApply(i)

SpecLoad == InitLoad /\ [][NextLoad]_vars

\* the two send loops of the ticks: every medication is active, the preferred
\* email times are stored as HH:MM, no reading is submitted and stop() is not called
InitTick ==
    /\ Init
    /\ now = 1
    /\ emailNotifications = [p \in Patients |-> TRUE]
    /\ storeTime = [p \in Patients |-> T0830]
    /\ medActive = [m \in Medications |-> TRUE]

NextTick ==
    \/ Start
    \/ Advance
    \/ MedIntervalFire
    \/ InitialCheckFire
    \/ DailyIntervalFire
    \/ \E i \in Slots : MedQuery(i)
    \/ \E i \in Slots : MedSend(i)
    \/ \E i \in Slots : MedResult(i)
    \/ \E i \in Slots : DailyContext(i)
    \/ \E i \in Slots : DailyMotivResult(i)
    \/ \E i \in Slots : AlertQuery(i)
    \/ \E i \in Slots : LoadRead(i)
    \/ \E i \in Slots : LoadApply(i)

SpecTick == InitTick /\ [][NextTick]_vars

\* the reloads of the schedule cache while rows leave the store: HH:MM:SS texts,
\* no active medication, stop() is not called
InitPurge ==
    /\ Init
    /\ now = 1
    /\ emailNotifications = [p \in Patients |-> TRUE]
    /\ storeTime \in [Patients -> SecondsTexts]
    /\ medActive = [m \in Medications |-> FALSE]

NextPurge ==
    \/ Start
    \/ Advance
    \/ InitialCheckFire
    \/ ReloadIntervalFire
    \/ ReloadRoute
    \/ RemovePatient
    \/ \E i \in Slots : MedQuery(i)
    \/ \E i \in Slots : LoadRead(i)
    \/ \E i \in Slots : LoadApply(i)

SpecPurge == InitPurge /\ [][NextPurge]_vars

\* the ticks when patients have switched their email notifications off: every
\* medication is active, the preferred email times are stored as HH:MM
InitQuiet ==
    /\ Init
    /\ now = 1
    /\ storeTime = [p \in Patients |-> T0830]
    /\ medActive = [m \in Medications |-> TRUE]

SpecQuiet == InitQuiet /\ [][NextTick]_vars

\* the daily updates of the evening: the run begins at 09:00, the preferred email
\* times are 21:00, stored as HH:MM, and no medication is active
InitEvening ==
    /\ Init
    /\ now = 4
    /\ emailNotifications = [p \in Patients |-> TRUE]
    /\ storeTime = [p \in Patients |-> T2100]
    /\ medActive = [m \in Medications |-> FALSE]

NextEvening ==
    \/ Start
    \/ AdvanceWithin(Len(ClockPoints))
    \/ InitialCheckFire
    \/ DailyIntervalFire
    \/ \E i \in Slots : MedQuery(i)
    \/ \E i \in Slots : DailyContext(i)
    \/ \E i \in Slots : DailyMotivResult(i)
    \/ \E i \in Slots : AlertQuery(i)
    \/ \E i \in Slots : LoadRead(i)
    \/ \E i \in Slots : LoadApply(i)

SpecEvening == InitEvening /\ [][NextEvening]_vars

(***************************************************************************)
(* The analysis engine: one call of one of its functions on a drawn        *)
(* argument.                                                               *)
(***************************************************************************)
BpReading(sys, dia) ==
    [dataType |-> "blood_pressure", value |-> 0, systolic |-> sys, diastolic |-> dia]

ValueReading(type, v) ==
    [dataType |-> type, value |-> v, systolic |-> 0, diastolic |-> 0]

\* readings around every threshold of the classifiers
SampleReadings ==
    {BpReading(sys, dia) : sys \in {120, 130, 131, 140, 141, 180, 181},
                           dia \in {80, 85, 86, 90, 91, 120, 121}}
    \cup {ValueReading("blood_sugar", v) : v \in {100, 140, 141, 180, 181, 240, 241}}
    \cup {ValueReading("heart_rate", v) : v \in {49, 59, 60, 100, 101, 121}}
    \cup {ValueReading("cholesterol", v) : v \in {200, 201, 240, 241}}

CallsOf(fn, args) == {[fn |-> fn, arg |-> a, done |-> FALSE, ret |-> <<>>] : a \in args}

\* everything but the call under study
engineFrame ==
    <<now, isRunning, timers, mainInterval, dailyUpdateInterval, scheduleReloadInterval,
      handles, initialChecks, patientSchedules, checkCount, storeTime, medActive,
      emailNotifications, pendingDaily, readings, tasks, remCount, alertCount, dailyCount>>

\* the call returns v
Return(v) ==
    /\ call' = [call EXCEPT !.done = TRUE, !.ret = v]
    /\ UNCHANGED engineFrame

AnalyzeSingleReadingCall ==
    /\ call.fn = "analyzeSingleReading"
    /\ ~call.done
    /\ Return([riskLevel |-> AnalyzeSingleReading(call.arg),
               insight |-> SingleInsight(call.arg)])

GetRiskLevelCall ==
    /\ call.fn = "getRiskLevel"
    /\ ~call.done
    /\ Return(GetRiskLevel(call.arg))

AnalyzeHealthDataCall ==
    /\ call.fn = "analyzeHealthData"
    /\ ~call.done
    /\ Return(AnalyzeHealthData(call.arg.reading, call.arg.run))

\* sequences over S of length 0..n
SeqsUpTo(S, n) == UNION {[1..k -> S] : k \in 0..n}

\* the readings of the reports: one of each severity and type
ReportReadings ==
    {BpReading(120, 80), BpReading(131, 80), BpReading(181, 121),
     ValueReading("blood_sugar", 200), ValueReading("blood_sugar", 241)}

GenerateRiskAssessmentCall ==
    /\ call.fn = "generateRiskAssessment"
    /\ ~call.done
    /\ Return(GenerateRiskAssessment(call.arg))

ComprehensiveRiskAssessmentCall ==
    /\ call.fn = "comprehensiveRiskAssessment"
    /\ ~call.done
    /\ Return(ComprehensiveRiskAssessment(call.arg.readings, call.arg.ok))

\* the values of the series
TrendValues == {100, 101, 120}

\* the increasing series of seven points, oldest first
RisingSeries == <<130, 132, 135, 138, 142, 145, 150>>

Series == SeqsUpTo(TrendValues, MaxPoints) \cup {RisingSeries}

AnalyzeHealthTrendsCall ==
    /\ call.fn = "analyzeHealthTrends"
    /\ ~call.done
    /\ Return(AnalyzeHealthTrends(call.arg))

AnalyzeTrendsCall ==
    /\ call.fn = "analyzeTrends"
    /\ ~call.done
    /\ Return(AnalyzeTrends(call.arg))

GeneratePredictionsCall ==
    /\ call.fn = "generatePredictions"
    /\ ~call.done
    /\ Return(GeneratePredictions(call.arg))

GenerateHealthPredictionsCall ==
    /\ call.fn = "generateHealthPredictions"
    /\ ~call.done
    /\ Return(GenerateHealthPredictions(call.arg))

AdherenceQueries ==
    [active : 0..MaxMeds, completed : 0..MaxCompleted,
     medsOk : BOOLEAN, remindersOk : BOOLEAN]

CalculateMedicationAdherenceCall ==
    /\ call.fn = "calculateMedicationAdherence"
    /\ ~call.done
    /\ Return(CalculateMedicationAdherence(call.arg))

\* adherence of 71 and of 86 percent, with the medication query answering or not
AdherenceSamples ==
    {q \in AdherenceQueries : q.active = 1 /\ q.completed \in {5, 6} /\ q.remindersOk}

PersonalizedInputs ==
    [conditions : SUBSET {"diabetes", "hypertension"},
     sugar : SeqsUpTo({100, 200}, 2),
     highBpCount : 0..1,
     activity : 2..3,
     adherence : AdherenceSamples]

ComprehensiveInputs ==
    [bp : SeqsUpTo({BpReading(120, 80), BpReading(150, 80)}, 1),
     medications : 0..1,
     adherence : AdherenceSamples,
     unmetGoals : 0..1]

GeneratePersonalizedRecommendationsCall ==
    /\ call.fn = "generatePersonalizedRecommendations"
    /\ ~call.done
    /\ Return(GeneratePersonalizedRecommendations(call.arg))

GenerateComprehensiveRecommendationsCall ==
    /\ call.fn = "generateComprehensiveRecommendations"
    /\ ~call.done
    /\ Return(GenerateComprehensiveRecommendations(call.arg))

SendInputs == [patient : BOOLEAN, transport : Transports]

SendMedicationReminderCall ==
    /\ call.fn = "sendMedicationReminder"
    /\ ~call.done
    /\ Return(SendMedicationReminder(call.arg))

SendMotivationalEmailCall ==
    /\ call.fn = "sendMotivationalEmail"
    /\ ~call.done
    /\ Return(SendMotivationalEmail(call.arg))

SendHealthAlertCall ==
    /\ call.fn = "sendHealthAlert"
    /\ ~call.done
    /\ Return(SendHealthAlert(call.arg))

T12080 == <<"1", "2", "0", "/", "8", "0">>

\* blood pressure texts: well formed, with blanks, with letters behind the digits,
\* with a part missing, without digits
BloodPressureTexts ==
    {T12080,
     <<"1", "5", "0", "/", "9", "5">>,
     <<"1", "3", "5", "/", "8", "0">>,
     <<"1", "2", "0", " ", "/", " ", "8", "0">>,
     <<"1", "2", "0", "/", "8", "0", "x">>,
     <<"1", "2", "0">>,
     <<"1", "2", "0", "/">>,
     <<"/", "8", "0">>,
     <<"a", "b", "c">>,
     <<"a", "/", "b">>}

PostInputs ==
    [value : BloodPressureTexts, column : ValueColumns, run : SubmitRuns,
     after : AfterCreate]

PostHealthDataCall ==
    /\ call.fn = "postHealthData"
    /\ ~call.done
    /\ Return(PostHealthData(call.arg))

EngineCalls ==
    CallsOf("analyzeSingleReading", SampleReadings)
    \cup CallsOf("getRiskLevel", SampleReadings)
    \cup CallsOf("analyzeHealthData", [reading : SampleReadings, run : StageRuns])
    \cup CallsOf("analyzeHealthTrends", Series)
    \cup CallsOf("analyzeTrends", Series)
    \cup CallsOf("calculateMedicationAdherence", AdherenceQueries)
    \cup CallsOf("generatePredictions", Series)
    \cup CallsOf("generateHealthPredictions", Series)
    \cup CallsOf("postHealthData", PostInputs)
    \cup CallsOf("sendMedicationReminder", SendInputs)
    \cup CallsOf("sendMotivationalEmail", SendInputs)
    \cup CallsOf("sendHealthAlert", SendInputs)
    \cup CallsOf("generatePersonalizedRecommendations", PersonalizedInputs)
    \cup CallsOf("generateComprehensiveRecommendations", ComprehensiveInputs)
    \cup CallsOf("generateRiskAssessment", SeqsUpTo(RiskLevels, MaxWindow))
    \cup CallsOf("comprehensiveRiskAssessment",
                 [readings : SeqsUpTo(ReportReadings, MaxWindow), ok : BOOLEAN])

InitEngine ==
    /\ now = 1
    /\ isRunning = FALSE
    /\ timers = {}
    /\ mainInterval = 0
    /\ dailyUpdateInterval = 0
    /\ scheduleReloadInterval = 0
    /\ handles = 0
    /\ initialChecks = <<>>
    /\ patientSchedules = [p \in Patients |-> NoTime]
    /\ checkCount = 0
    /\ storeTime = [p \in Patients |-> T083000]
    /\ medActive = [m \in Medications |-> TRUE]
    /\ readings = [r \in ReadingIds |-> NoReading]
    /\ tasks = [i \in Slots |-> Idle]
    /\ remCount = [m \in Medications |-> [k \in Clock |-> 0]]
    /\ alertCount = [r \in ReadingIds |-> 0]
    /\ dailyCount = [p \in Patients |-> 0]
    /\ emailNotifications = [p \in Patients |-> TRUE]
    /\ pendingDaily = [p \in Patients |-> NoTriggers]
    /\ call \in EngineCalls

NextEngine ==
    \/ AnalyzeSingleReadingCall
    \/ GetRiskLevelCall
    \/ AnalyzeHealthDataCall
    \/ GenerateRiskAssessmentCall
    \/ AnalyzeHealthTrendsCall
    \/ AnalyzeTrendsCall
    \/ GeneratePredictionsCall
    \/ GenerateHealthPredictionsCall
    \/ CalculateMedicationAdherenceCall
    \/ PostHealthDataCall
    \/ SendMedicationReminderCall
    \/ SendMotivationalEmailCall
    \/ SendHealthAlertCall
    \/ GeneratePersonalizedRecommendationsCall
    \/ GenerateComprehensiveRecommendationsCall
    \/ ComprehensiveRiskAssessmentCall

SpecEngine == InitEngine /\ [][NextEngine]_vars

(***************************************************************************)
(* The claims.                                                             *)
(***************************************************************************)
\* the step of task i calls the NotificationSink
SendStep(i) ==
    \/ tasks[i].kind = "med" /\ tasks[i].pc = "send" /\ tasks'[i].pc = "wait"
    \/ tasks[i].kind = "daily" /\ tasks[i].pc = "context" /\ tasks'[i].pc = "motivWait"
    \/ tasks[i].kind = "daily" /\ tasks[i].pc = "alert" /\ tasks'[i].pc = "alertWait"

\* C1: for each medication and each wall-clock minute, sendMedicationReminder is
\* called at most once, whatever the interleaving of the periodic tick, the
\* one-shot initial check and manualEmailCheck.
C1_OncePerMinute ==
    \A m \in Medications, k \in Clock : remCount[m][k] <= 1

\* C2: sendHealthAlert is called at most once per reading over the whole run.
C2_AlertOnce ==
    \A r \in ReadingIds : alertCount[r] <= 1

\* C3: after stop() returned and until start() is called again, no tick that a
\* timer of the scheduler starts begins executing.
C3_NoTickWhileStopped ==
    [][(~isRunning /\ ~isRunning') =>
        \A i \in Slots :
            (tasks[i].kind = "idle" /\ tasks'[i].kind # "idle")
                => tasks'[i].origin \notin TimerOrigins]_vars

\* C4: a tick whose send loop was running when stop() was called starts no further
\* NotificationSink call after stop() returned.
C4_NoSendAfterStop ==
    [][\A i \in Slots :
        (tasks[i].cut /\ tasks[i].origin \in TimerOrigins) => ~SendStep(i)]_vars

\* C5: start() while Running is a no-op: while the scheduler stays Running no
\* timer is created or cleared and no handle changes; at most one medication
\* timer, one daily-update timer and one schedule-reload timer are live, and
\* none is live while the scheduler is Stopped.
TimerIds(ts) == {<<t.kind, t.gen>> : t \in ts}

C5_StartIdempotent ==
    /\ [](/\ \A k \in {"medication", "daily", "reload"} :
                Cardinality({t \in timers : t.kind = k}) <= 1
          /\ (~isRunning => timers = {}))
    /\ [][(isRunning /\ isRunning') =>
            /\ TimerIds(timers') = TimerIds(timers)
            /\ handles' = handles
            /\ mainInterval' = mainInterval
            /\ dailyUpdateInterval' = dailyUpdateInterval
            /\ scheduleReloadInterval' = scheduleReloadInterval]_vars

\* the scheduler runs for the second time, with the three timers of the second start()
C5_Witness ==
    /\ isRunning
    /\ handles = 2
    /\ TimerIds(timers) = {<<k, 2>> : k \in {"medication", "daily", "reload"}}

\* preferredEmailTime truncated to the minute
Truncate(t) == SubSeq(t, 1, 5)

\* C6: on a daily-update tick inside operating hours, every cached patient whose
\* preferredEmailTime truncated to the minute equals the tick's HH:MM is among the
\* patients the tick sends the motivational email to.
C6_DuePatientsSelected ==
    [][(checkCount' # checkCount /\ InDailyHours(now)) =>
        \A p \in Patients :
            (patientSchedules[p] # NoTime
                /\ Truncate(patientSchedules[p]) = ToHHMM(Minute(now)))
            => \E i \in Slots :
                    /\ tasks[i].kind = "idle"
                    /\ tasks'[i].kind = "daily"
                    /\ p \in Range(tasks'[i].queue)]_vars

\* the dose times of the medications, as minutes of the day
DoseMinutes(m) == IF m = "m1" THEN {480, 510, 1200} ELSE {480}

\* C7: a reminder is sent only by a tick whose own wall-clock minute is a dose time
\* of the medication: a tick at another minute sends nothing for it, so a dose
\* whose minute passed without a tick is not sent by a later tick.
C7_OnlyAtDoseTime ==
    /\ \A m \in Medications, k \in Clock :
            remCount[m][k] > 0 => Minute(k) \in DoseMinutes(m)
    /\ \A i \in Slots :
            tasks[i].kind = "med" =>
                \A j \in 1..Len(tasks[i].queue) :
                    Minute(tasks[i].at) \in DoseMinutes(tasks[i].queue[j])

\* no reminder was sent for the 08:00 doses (the first instant), and the tick of
\* the third instant (08:30) sent the 08:30 dose of m1 and nothing for m2
C7_Witness ==
    /\ now >= 3
    /\ \A m \in Medications : remCount[m][1] = 0 /\ remCount[m][2] = 0
    /\ remCount["m1"][3] > 0
    /\ \E t \in timers : t.kind = "medication" /\ t.last = 3
    /\ \A i \in Slots : tasks[i].kind = "idle"

\* C8: a failed delivery for one item does not end the tick: a send loop goes from
\* one item to the next only after the send of the item was called, whatever it
\* answered, and ends only after the send of its last item.
InLoop(t) ==
    \/ t.kind = "med" /\ t.pc \in {"send", "wait"}
    \/ t.kind = "daily"

AfterSend(t) ==
    \/ t.kind = "med" /\ t.pc = "wait"
    \/ t.kind = "daily" /\ t.pc \in {"motivWait", "alertQuery", "alert", "alertWait"}

C8_FailureDoesNotEndTick ==
    [][\A i \in Slots :
        InLoop(tasks[i]) =>
            \/ /\ tasks'[i].kind = tasks[i].kind
               /\ InLoop(tasks'[i])
               /\ tasks'[i].queue = tasks[i].queue
               /\ \/ tasks'[i].idx = tasks[i].idx
                  \/ /\ tasks'[i].idx = tasks[i].idx + 1
                     /\ AfterSend(tasks[i])
                     /\ tasks'[i].pc \in {"send", "context"}
            \/ /\ ~(tasks'[i].kind = tasks[i].kind /\ InLoop(tasks'[i]))
               /\ AfterSend(tasks[i])
               /\ tasks[i].idx = Len(tasks[i].queue)]_vars

\* a medication tick whose first send failed has called the send of its second
\* item, and a daily tick whose first send failed has called the send for its
\* second patient
C8_Witness ==
    \E i, j \in Slots :
        /\ tasks[i].kind = "med" /\ tasks[i].pc = "wait"
        /\ tasks[i].idx = 2 /\ tasks[i].hadError
        /\ tasks[j].kind = "daily" /\ tasks[j].pc = "motivWait"
        /\ tasks[j].idx = 2 /\ tasks[j].hadError

\* C9: when a store query fails during a scheduler tick, that tick makes no further
\* NotificationSink call.
C9_NoSendAfterStoreFailure ==
    [][\A i \in Slots :
        (tasks'[i].failed /\ tasks[i].origin \in TimerOrigins) => ~SendStep(i)]_vars

\* C10: a reader of the schedule cache never sees a part of a load: every step
\* that changes the cache either clears it (stop) or is the end of one
\* loadPatientSchedules call and leaves every patient of that load in the cache.
C10_LoadIsAtomic ==
    [][patientSchedules' # patientSchedules =>
        \/ patientSchedules' = [p \in Patients |-> NoTime]
        \/ \E i \in Slots :
            /\ tasks[i].kind = "load"
            /\ tasks[i].pc = "loadApply"
            /\ tasks'[i].kind = "idle"
            /\ \A p \in Patients :
                    tasks[i].loaded[p] # NoTime
                        => patientSchedules'[p] = tasks[i].loaded[p]]_vars

\* a load is about to write a snapshot that differs from the complete old one in
\* every patient: what a reader sees now is the old snapshot
C10_Witness ==
    \E i \in Slots :
        /\ tasks[i].kind = "load"
        /\ tasks[i].pc = "loadApply"
        /\ \A p \in Patients :
                /\ patientSchedules[p] # NoTime
                /\ tasks[i].loaded[p] # NoTime
                /\ tasks[i].loaded[p] # patientSchedules[p]

\* C11: when a loadPatientSchedules call completes successfully, the cache holds
\* exactly the patients its store query returned: a cached patient that the store
\* did not return is gone from the cache.
C11_CacheReplaced ==
    [][\A i \in Slots :
        (tasks[i].kind = "load" /\ tasks[i].pc = "loadApply" /\ tasks'[i].kind = "idle")
            => \A p \in Patients : patientSchedules'[p] = tasks[i].loaded[p]]_vars

\* the readings of patient p that an update has to alert: high or critical risk,
\* not yet marked alert-sent (every reading of a run is younger than 24 hours)
UnsentCritical(p) ==
    {r \in ReadingIds :
        /\ readings[r].used
        /\ readings[r].patientId = p
        /\ readings[r].riskLevel \in {"high", "critical"}
        /\ ~readings[r].alertSent}

\* C12: when the motivational email of a daily update answered, whatever its
\* status, and the patient has an unsent high or critical reading, the update
\* goes on to the alert check of that patient and does not end or move on.
C12_AlertsWhateverStatus ==
    [][\A i \in Slots :
        (/\ tasks[i].kind = "daily"
         /\ tasks[i].pc = "motivWait"
         /\ tasks'[i] # tasks[i]
         /\ UnsentCritical(tasks[i].queue[tasks[i].idx]) # {})
        => /\ tasks'[i].kind = "daily"
           /\ tasks'[i].idx = tasks[i].idx
           /\ tasks'[i].pc = "alertQuery"]_vars

\* C13: analyzeHealthData returns the risk level and the insight of the classifier
\* for the submitted reading, whatever the other stages do (patient or history
\* lookup, trends, predictions, recommendations).
C13_ClassifierOutputKept ==
    (call.fn = "analyzeHealthData" /\ call.done) =>
        /\ call.ret.riskLevel = AnalyzeSingleReading(call.arg.reading)
        /\ call.ret.insights = <<SingleInsight(call.arg.reading)>>

\* C14: every stored reading's riskLevel equals the risk level a fresh classifier
\* call gives for the stored dataType and value, also when the analysis failed or
\* timed out during the submission.
C14_StoredRiskIsClassified ==
    \A r \in ReadingIds :
        readings[r].used => readings[r].riskLevel = AnalyzeSingleReading(readings[r])

\* severity order: low < moderate < high < critical
Severity(level) ==
    IF level = "critical" THEN 3
    ELSE IF level = "high" THEN 2
    ELSE IF level = "moderate" THEN 1
    ELSE 0

\* the most severe of a sequence of risk levels (low when it is empty)
MaxSeverity(levels) ==
    IF levels = <<>> THEN "low"
    ELSE CHOOSE l \in Range(levels) :
            \A j \in 1..Len(levels) : Severity(levels[j]) <= Severity(l)

\* C15: the overall risk of a multi-reading report is the most severe risk level
\* among the readings of the window: one critical reading gives critical, a
\* single moderate reading with nothing more severe gives moderate.
C15_OverallIsMaxSeverity ==
    /\ (call.fn = "generateRiskAssessment" /\ call.done)
            => call.ret = MaxSeverity(call.arg)
    /\ (call.fn = "comprehensiveRiskAssessment" /\ call.done /\ call.arg.ok)
            => call.ret = MaxSeverity([j \in 1..Len(call.arg.readings) |->
                                        AnalyzeSingleReading(call.arg.readings[j])])

\* the risk level the blood pressure scale gives: critical above 180 or 120, high
\* above 140 or 90, moderate above 130 or 85, else low
BloodPressureScale(sys, dia) ==
    IF sys > 180 \/ dia > 120 THEN "critical"
    ELSE IF sys > 140 \/ dia > 90 THEN "high"
    ELSE IF sys > 130 \/ dia > 85 THEN "moderate"
    ELSE "low"

\* C16: for every blood pressure pair the classifier returns critical when
\* systolic > 180 or diastolic > 120 (not for exactly 180/120), else high when
\* systolic > 140 or diastolic > 90, else moderate when systolic > 130 or
\* diastolic > 85, else low.
C16_BloodPressureScale ==
    (/\ call.fn \in {"analyzeSingleReading", "getRiskLevel"}
     /\ call.done
     /\ call.arg.dataType = "blood_pressure")
    => LET level == IF call.fn = "getRiskLevel" THEN call.ret ELSE call.ret.riskLevel
       IN level = BloodPressureScale(call.arg.systolic, call.arg.diastolic)

\* the risk level the four-tier blood sugar scale gives
BloodSugarScale(v) ==
    IF v > 240 THEN "critical"
    ELSE IF v > 180 THEN "high"
    ELSE IF v > 140 THEN "moderate"
    ELSE "low"

\* C17: for every blood_sugar value the classifier returns critical above 240,
\* high above 180, moderate above 140 and low otherwise.
C17_BloodSugarScale ==
    (/\ call.fn \in {"analyzeSingleReading", "getRiskLevel"}
     /\ call.done
     /\ call.arg.dataType = "blood_sugar")
    => LET level == IF call.fn = "getRiskLevel" THEN call.ret ELSE call.ret.riskLevel
       IN level = BloodSugarScale(call.arg.value)

\* ten times the numerator and the denominator of the least-squares slope of a
\* series over the index 0..n-1 (the denominator is positive for n >= 2)
SlopeNum(values) ==
    LET n == Len(values)
    IN n * Sum([i \in 1..n |-> (i - 1) * values[i]])
       - Sum([i \in 1..n |-> i - 1]) * Sum(values)

SlopeDen(values) ==
    LET n == Len(values)
    IN n * Sum([i \in 1..n |-> (i - 1) * (i - 1)])
       - Sum([i \in 1..n |-> i - 1]) * Sum([i \in 1..n |-> i - 1])

\* the direction of a series: by the slope against 0.1 and -0.1
TrendDirection(values) ==
    IF Len(values) < 3 THEN "insufficient_data"
    ELSE IF 10 * SlopeNum(values) > SlopeDen(values) THEN "increasing"
    ELSE IF 10 * SlopeNum(values) < 0 - SlopeDen(values) THEN "decreasing"
    ELSE "stable"

TrendConfidence(values) ==
    IF Len(values) < 3 THEN "low"
    ELSE IF Len(values) >= 7 THEN "high"
    ELSE "medium"

\* the direction that a trend text of the analysis service names
DirectionOf(text) ==
    IF text = "Increasing trend" THEN "increasing"
    ELSE IF text = "Decreasing trend" THEN "decreasing"
    ELSE IF text = "Stable trend" THEN "stable"
    ELSE "insufficient_data"

\* C18: the trend analysis returns insufficient_data with confidence low for every
\* series of fewer than 3 points; for 3 or more points the direction is increasing
\* when the least-squares slope exceeds 0.1, decreasing when it is below -0.1,
\* stable otherwise, and the confidence is high for 7 or more points, else medium.
C18_TrendDirection ==
    /\ (call.fn = "analyzeHealthTrends" /\ call.done)
            => /\ call.ret.trend = TrendDirection(call.arg)
               /\ call.ret.confidence = TrendConfidence(call.arg)
    /\ (call.fn = "analyzeTrends" /\ call.done)
            => DirectionOf(call.ret.trends[1]) = TrendDirection(call.arg)

\* analyzeHealthTrends alone follows the least-squares rule
TrendOfRoutesAgrees ==
    (call.fn = "analyzeHealthTrends" /\ call.done)
        => /\ call.ret.trend = TrendDirection(call.arg)
           /\ call.ret.confidence = TrendConfidence(call.arg)

\* the result of a forecast call is a prediction
IsPrediction ==
    IF call.fn = "generatePredictions"
    THEN call.ret.predictions[1] = "is expected to remain around"
    ELSE call.ret.prediction = "value"

\* the result of a forecast call reports insufficient data
IsInsufficient ==
    IF call.fn = "generatePredictions"
    THEN call.ret.predictions = <<"Need more data points for accurate predictions">>
    ELSE call.ret.prediction = "insufficient_data"

\* C19: the forecaster gives a prediction for every series of at least 5 points
\* and an insufficient-data result for every series of fewer than 5 points.
C19_ForecastFromFivePoints ==
    (call.fn \in {"generatePredictions", "generateHealthPredictions"} /\ call.done)
        => IF Len(call.arg) >= 5 THEN IsPrediction ELSE IsInsufficient

\* the integer nearest to num / den (halves upwards), stated by its bounds
NearestInteger(num, den) ==
    CHOOSE r \in 0..(num + 1) : /\ 2 * den * r <= 2 * num + den
                                /\ 2 * num + den < 2 * den * (r + 1)

\* the adherence of the policy: 100 without active medication, otherwise the
\* completed reminders over seven doses a medication, in percent, at most 100
PolicyAdherence(q) ==
    IF q.active = 0 THEN 100
    ELSE Min(100, NearestInteger(q.completed * 100, q.active * 7))

\* C20: calculateMedicationAdherence returns 100 whenever the patient has no
\* active medication, otherwise min(100, round(completed / (active x 7) x 100)),
\* so the result is an integer from 0 to 100.
C20_AdherencePolicy ==
    (call.fn = "calculateMedicationAdherence" /\ call.done)
        => /\ call.ret = PolicyAdherence(call.arg)
           /\ call.ret \in 0..100

\* when both queries answer, calculateMedicationAdherence follows the policy
AdherenceWhenStoreAnswers ==
    (/\ call.fn = "calculateMedicationAdherence"
     /\ call.done
     /\ call.arg.medsOk
     /\ call.arg.remindersOk)
        => /\ call.ret = PolicyAdherence(call.arg)
           /\ call.ret \in 0..100

\* the recommendations in the order in which the rules of the call added them
AddedByRules ==
    IF call.fn = "generatePersonalizedRecommendations"
    THEN PersonalizedRules(call.arg)
    ELSE ComprehensiveRules(call.arg)

\* the place of a recommendation in a list
PlaceIn(list, rec) == CHOOSE k \in 1..Len(list) : list[k] = rec

RecommendationCallDone ==
    /\ call.fn \in {"generatePersonalizedRecommendations",
                    "generateComprehensiveRecommendations"}
    /\ call.done

\* C21: the recommendation list returned to the caller holds what the rules
\* added, every high before every medium before every low, and recommendations
\* of equal priority in the order in which the rules added them.
C21_SortedByPriority ==
    RecommendationCallDone =>
        /\ Len(call.ret) = Len(AddedByRules)
        /\ Range(call.ret) = Range(AddedByRules)
        /\ \A i, j \in 1..Len(call.ret) :
            i < j =>
                /\ PriorityOrder(call.ret[i].priority)
                        >= PriorityOrder(call.ret[j].priority)
                /\ call.ret[i].priority = call.ret[j].priority
                        => PlaceIn(AddedByRules, call.ret[i])
                                < PlaceIn(AddedByRules, call.ret[j])

\* a list in which the rules added a medium before a high, and two of each
C21_Witness ==
    /\ RecommendationCallDone
    /\ Len(call.ret) = 4
    /\ AddedByRules[2].priority = "medium"
    /\ AddedByRules[4].priority = "high"
    /\ call.ret[1].priority = call.ret[2].priority
    /\ call.ret[3].priority = call.ret[4].priority

SendCallDone ==
    /\ call.fn \in {"sendMedicationReminder", "sendMotivationalEmail", "sendHealthAlert"}
    /\ call.done

\* C22: a NotificationSink call (sendMedicationReminder, sendMotivationalEmail,
\* sendHealthAlert) never throws to its caller, whatever the transport does, and
\* its result reads as exactly one of delivered, simulated or error.
C22_SendNeverThrows ==
    SendCallDone =>
        /\ ~call.ret.threw
        /\ Status(call.ret) \in {"delivered", "simulated", "error"}
        /\ (Status(call.ret) = "delivered") = (call.ret.id /\ ~call.ret.error /\ ~call.ret.simulated)

\* a send whose mail could not be built, and a send that the transport rejected
C22_Witness ==
    /\ SendCallDone
    /\ Status(call.ret) = "error"
    /\ (~call.arg.patient \/ call.arg.transport = "rejectedBody")

\* C23: a blood_pressure value submitted as text "S/D" with integers S and D is
\* stored as the pair {systolic: S, diastolic: D} (so "120/80" classifies as low),
\* and a text that does not yield two integers is rejected with a validation
\* error, without a Reading, an analysis, feedback or an alert.
C23_BloodPressureTextStored ==
    (call.fn = "postHealthData" /\ call.done) =>
        LET bp == ParseBloodPressure(call.arg.value)
        IN IF bp.systolic # NaN /\ bp.diastolic # NaN
           THEN /\ call.ret.created
                /\ call.ret.stored.kind = "pair"
                /\ call.ret.stored.systolic = bp.systolic
                /\ call.ret.stored.diastolic = bp.diastolic
                /\ (/\ call.arg.value = T12080
                    /\ call.arg.run.patient = "found"
                    /\ call.arg.after = "ok")
                        => call.ret.riskLevel = "low"
           ELSE /\ call.ret.status = 400
                /\ ~call.ret.created
                /\ call.ret.riskLevel = "none"
                /\ ~call.ret.feedback
                /\ ~call.ret.alert

\* the parsing of the text and the rejection of a malformed text, apart from
\* what the value column keeps
BloodPressureTextParsed ==
    (call.fn = "postHealthData" /\ call.done) =>
        LET bp == ParseBloodPressure(call.arg.value)
        IN /\ (call.arg.value = T12080) => (bp.systolic = 120 /\ bp.diastolic = 80)
           /\ (bp.systolic = NaN \/ bp.diastolic = NaN)
                => (call.ret.status = 400 /\ ~call.ret.created /\ ~call.ret.alert)
           /\ (/\ call.ret.status = 200
               /\ call.arg.value = T12080
               /\ call.arg.run.patient = "found"
               /\ call.arg.after = "ok")
                => call.ret.riskLevel = "low"

\* the scheduler has been running since a minute before the current one
RunningSinceEarlier ==
    /\ isRunning
    /\ \E t \in timers : t.kind = "daily" /\ Minute(t.created) < Minute(now)

\* a daily-update tick of a live timer falls into the current minute
DailyTickThisMinute ==
    \E t \in timers :
        /\ t.kind = "daily"
        /\ Minute(now) > Minute(t.created)
        /\ (Minute(now) - Minute(t.created)) % DailyPeriod = 0

\* C24: while the scheduler stays Running, every patient whose preferred email
\* time lies inside the daily-update operating hours is sent a daily update at
\* that time, whatever minute of the hour it is and whenever the scheduler was
\* started: in the patient's preferred minute a daily-update tick runs and
\* selects the patient.
C24_UpdateAtPreferredTime ==
    \A p \in Patients :
        (/\ RunningSinceEarlier
         /\ InDailyHours(now)
         /\ patientSchedules[p] # NoTime
         /\ Truncate(patientSchedules[p]) = ToHHMM(Minute(now)))
            => /\ DailyTickThisMinute
               /\ p \in Range(PatientsToEmail(patientSchedules, now))

\* the patient that the send of a loop item goes to
Recipient(t) ==
    IF t.kind = "med" THEN MedRow[t.queue[t.idx]].patientId ELSE t.queue[t.idx]

\* C25: a patient whose emailNotifications setting is off is sent no email by a
\* scheduler tick: no medication reminder, no daily update, no health alert.
C25_NoEmailWhenSwitchedOff ==
    [][\A i \in Slots :
        (SendStep(i) /\ tasks[i].origin \in TimerOrigins)
            => emailNotifications[Recipient(tasks[i])]]_vars

\* the medication reminders alone respect the setting
RemindersRespectSetting ==
    [][\A i \in Slots :
        (SendStep(i) /\ tasks[i].kind = "med")
            => emailNotifications[Recipient(tasks[i])]]_vars

\* C26: scheduler ticks send emails only between 7 AM and 9 PM: no tick that runs
\* before 07:00 or at or after 21:00 sends a medication reminder, a daily update
\* or a health alert.
C26_SendsOnlyInOperatingHours ==
    [][\A i \in Slots :
        (SendStep(i) /\ tasks[i].origin \in TimerOrigins)
            => LET hour == Minute(tasks[i].at) \div 60
               IN hour >= 7 /\ hour < 21]_vars

\* C27: when a submitted reading is analysed as high or critical risk, a health
\* alert is sent to the patient as part of handling that submission, without
\* waiting for a scheduler tick.
C27_AlertWithinSubmission ==
    (/\ call.fn = "postHealthData"
     /\ call.done
     /\ call.ret.analysed \in {"high", "critical"})
        => call.ret.alert

\* when the writes that follow the analysis succeed, the alert of a reading
\* analysed as high is sent within the submission
AlertWhenWritesSucceed ==
    (/\ call.fn = "postHealthData"
     /\ call.done
     /\ call.arg.after = "ok"
     /\ call.ret.analysed = "high")
        => call.ret.alert

\* the readings of patient p whose alert a daily update has attempted before
\* (after the alert of the submission itself), which answered and left the
\* reading unmarked
Unmarked(p) ==
    {r \in UnsentCritical(p) :
        /\ alertCount[r] >= 2
        /\ \A j \in Slots :
            ~ /\ tasks[j].kind = "daily"
              /\ tasks[j].pc \in {"alert", "alertWait"}
              /\ r \in Range(tasks[j].items)}

\* the update of the current patient of a daily task ends in this step
UpdateEnds(i) ==
    /\ tasks[i].kind = "daily"
    /\ \/ tasks'[i].kind # "daily"
       \/ tasks'[i].idx # tasks[i].idx

\* a reading becomes marked only when the alert for it answered
MarkedOnlyAfterAlert ==
    [][\A r \in ReadingIds :
        (readings'[r].alertSent /\ ~readings[r].alertSent)
            => \E i \in Slots :
                /\ tasks[i].kind = "daily"
                /\ tasks[i].pc = "alertWait"
                /\ tasks[i].items[tasks[i].aidx] = r]_vars

\* C28: a reading is marked alert-sent only after sendHealthAlert answered for it
\* with a real delivery; a reading whose alert was simulated or failed stays
\* unmarked, and the next daily update of that patient attempts the alert again.
C28_UnmarkedIsRetried ==
    /\ MarkedOnlyAfterAlert
    /\ [][\A i \in Slots :
            UpdateEnds(i) =>
                \A r \in Unmarked(tasks[i].queue[tasks[i].idx]) :
                    /\ tasks[i].pc = "alertWait"
                    /\ r \in Range(tasks[i].items)]_vars

\* C29: a loadPatientSchedules call that was awaiting the store when stop() ran
\* does not repopulate the cache: when the load of start() or of the reload timer
\* completes while the scheduler is stopped, the cache is empty afterwards.
C29_NoRepopulationAfterStop ==
    [][\A i \in Slots :
        (/\ tasks[i].kind = "load"
         /\ tasks[i].origin \in {"start", "interval"}
         /\ tasks'[i].kind = "idle"
         /\ ~isRunning
         /\ ~isRunning')
            => patientSchedules' = [p \in Patients |-> NoTime]]_vars

(***************************************************************************)
(* The earlier revision of the scheduler: a 1-minute check, a 15-minute    *)
(* reload, and one setTimeout chain per patient.                           *)
(***************************************************************************)
MaxTriggers == 2        \* the pending setTimeout triggers of a patient saturate here

LegacyCheckPeriod == 1      \* minutes between two checkScheduledEmails
LegacyReloadPeriod == 15    \* minutes between two schedule reloads

LegacyTimerDue(t) ==
    /\ Minute(now) > Minute(t.created)
    /\ (Minute(now) - Minute(t.created))
            % (IF t.kind = "legacyCheck" THEN LegacyCheckPeriod ELSE LegacyReloadPeriod) = 0
    /\ t.last # now

\* preferredTime.split(':').map(Number) as the minute of the day of setHours
TargetMinute(preferredTime) ==
    LET parts == SplitColon(preferredTime)
    IN ParseInt(parts[1]) * 60 + ParseInt(parts[2])

\* scheduleEmail: a setTimeout for today's target, or for tomorrow's when now is
\* past it; onTheDot is the call in the very millisecond of the target; the
\* numbers of pending triggers are followed up to MaxTriggers
SchedulePatientEmails(pending, preferredTime, onTheDot) ==
    IF \/ Minute(now) < TargetMinute(preferredTime)
       \/ (Minute(now) = TargetMinute(preferredTime) /\ onTheDot)
    THEN [pending EXCEPT !.today = IF @ < MaxTriggers THEN @ + 1 ELSE @]
    ELSE [pending EXCEPT !.tomorrow = IF @ < MaxTriggers THEN @ + 1 ELSE @]

LegacyLoadTask == [Idle EXCEPT !.kind = "legacyLoad", !.origin = "start", !.pc = "loadQuery"]

LegacyStart ==
    /\ ~isRunning
    /\ HasFree
    /\ \E g \in 1..MaxGen :
        /\ g = handles + 1
        /\ handles' = g
        /\ timers' = timers \cup
                {[kind |-> k, gen |-> g, created |-> now, last |-> now] :
                    k \in {"legacyCheck", "legacyReload"}}
        /\ mainInterval' = g
        /\ scheduleReloadInterval' = g
    /\ isRunning' = TRUE
    /\ tasks' = [tasks EXCEPT ![FreeSlot] = LegacyLoadTask]
    /\ UNCHANGED <<now, dailyUpdateInterval, initialChecks, patientSchedules, checkCount,
                   storeTime, medActive, emailNotifications, pendingDaily, call, readings>>
    /\ UNCHANGED logVars

\* stop() clears the two intervals and this.intervals, which holds no timer: the
\* setTimeout triggers of schedulePatientEmails are kept nowhere
LegacyStop ==
    /\ isRunning
    /\ timers' = {t \in timers :
            ~ \/ (t.kind = "legacyCheck" /\ t.gen = mainInterval)
              \/ (t.kind = "legacyReload" /\ t.gen = scheduleReloadInterval)}
    /\ isRunning' = FALSE
    /\ UNCHANGED <<now, mainInterval, dailyUpdateInterval, scheduleReloadInterval, handles,
                   initialChecks, patientSchedules, checkCount, storeTime, medActive,
                   emailNotifications, pendingDaily, call, readings, tasks>>
    /\ UNCHANGED logVars

LegacyReloadFire ==
    /\ \E t \in timers :
        /\ t.kind = "legacyReload"
        /\ LegacyTimerDue(t)
        /\ Touch(t)
    /\ HasFree
    /\ tasks' = [tasks EXCEPT ![FreeSlot] = [LegacyLoadTask EXCEPT !.origin = "interval"]]
    /\ UNCHANGED <<now, isRunning, mainInterval, dailyUpdateInterval,
                   scheduleReloadInterval, handles, initialChecks, patientSchedules,
                   checkCount, storeTime, medActive,
                   emailNotifications, pendingDaily, call, readings>>
    /\ UNCHANGED logVars

\* Patient.findAll of loadPatientSchedules answers, or fails into the catch
LegacyLoadRead(i) ==
    /\ tasks[i].kind = "legacyLoad"
    /\ tasks[i].pc = "loadQuery"
    /\ \E ok \in BOOLEAN :
        tasks' = [tasks EXCEPT ![i] =
            IF ok THEN [@ EXCEPT !.pc = "loadApply", !.loaded = storeTime]
            ELSE Idle]
    /\ UNCHANGED <<now, patientSchedules, checkCount, storeTime, medActive,
                   emailNotifications, pendingDaily, call, readings>>
    /\ UNCHANGED schedVars
    /\ UNCHANGED logVars

\* the await returns: this.intervals is cleared (it is empty) and every loaded
\* patient gets a new setTimeout
LegacyLoadApply(i) ==
    /\ tasks[i].kind = "legacyLoad"
    /\ tasks[i].pc = "loadApply"
    /\ \E onTheDot \in BOOLEAN :
        pendingDaily' = [p \in Patients |->
            IF tasks[i].loaded[p] # NoTime
            THEN SchedulePatientEmails(pendingDaily[p], tasks[i].loaded[p], onTheDot)
            ELSE pendingDaily[p]]
    /\ tasks' = [tasks EXCEPT ![i] = Idle]
    /\ UNCHANGED <<now, patientSchedules, checkCount, storeTime, medActive,
                   emailNotifications, call, readings>>
    /\ UNCHANGED schedVars
    /\ UNCHANGED <<remCount, alertCount, dailyCount>>

\* a setTimeout of schedulePatientEmails fires: sendDailyUpdate, then the next
\* setTimeout, which is for tomorrow because the target has passed
LegacyTimeoutFire(p) ==
    /\ pendingDaily[p].today > 0
    /\ Minute(now) >= TargetMinute(storeTime[p])
    /\ dailyCount' = [dailyCount EXCEPT ![p] = Sat(@)]
    /\ pendingDaily' = [pendingDaily EXCEPT ![p] =
            SchedulePatientEmails([@ EXCEPT !.today = @ - 1], storeTime[p], FALSE)]
    /\ UNCHANGED <<now, patientSchedules, checkCount, storeTime, medActive,
                   emailNotifications, call, readings, tasks>>
    /\ UNCHANGED schedVars
    /\ UNCHANGED <<remCount, alertCount>>

\* the 1-minute interval: checkScheduledEmails sends the daily update to every
\* patient whose preferredEmailTime the store finds equal to HH:MM, or ends in
\* its catch when the query fails
LegacyCheckFire ==
    /\ \E t \in timers :
        /\ t.kind = "legacyCheck"
        /\ LegacyTimerDue(t)
        /\ Touch(t)
    /\ checkCount' = IF checkCount < MaxChecks THEN checkCount + 1 ELSE checkCount
    /\ \E ok \in BOOLEAN :
        dailyCount' = [p \in Patients |->
            IF ok /\ storeTime[p] # NoTime /\ TargetMinute(storeTime[p]) = Minute(now)
            THEN Sat(dailyCount[p])
            ELSE dailyCount[p]]
    /\ UNCHANGED <<now, isRunning, mainInterval, dailyUpdateInterval,
                   scheduleReloadInterval, handles, initialChecks, patientSchedules,
                   storeTime, medActive, emailNotifications, pendingDaily, call, readings,
                   tasks>>
    /\ UNCHANGED <<remCount, alertCount>>

\* no medication is active, so the medication part of the check finds nothing
InitLegacy ==
    /\ Init
    /\ now = 1
    /\ emailNotifications = [p \in Patients |-> TRUE]
    /\ storeTime \in [Patients -> SecondsTexts]
    /\ medActive = [m \in Medications |-> FALSE]

NextLegacy ==
    \/ LegacyStart
    \/ LegacyStop
    \/ Advance
    \/ LegacyReloadFire
    \/ LegacyCheckFire
    \/ \E i \in Slots : LegacyLoadRead(i)
    \/ \E i \in Slots : LegacyLoadApply(i)
    \/ \E p \in Patients : LegacyTimeoutFire(p)

SpecLegacy == InitLegacy /\ [][NextLegacy]_vars

\* C30: the scheduler starts at most one daily update per patient and calendar
\* day, and after any number of schedule reloads no patient has more than one
\* pending daily-update trigger.
C30_OneDailyUpdatePerDay ==
    \A p \in Patients :
        /\ dailyCount[p] <= 1
        /\ pendingDaily[p].today + pendingDaily[p].tomorrow <= 1

\* the 30-minute tick of the present scheduler starts at most one daily update per
\* patient in a run of one start()
TickSendsOncePerDay == \A p \in Patients : dailyCount[p] <= 1

====
